---- MODULE Spec2Model ----
(***************************************************************************)
(* Model of the machine of ultimate_scale: the block grid and block arena  *)
(* of src/machine/mod.rs (Machine, Blocks) and the operations on them, the *)
(* blocks and their ports (Block, PlacedBlock), the tick engine (Exec),    *)
(* the view that drives it (src/exec/view.rs: ExecView), its timer         *)
(* (src/util/timer.rs: Timer), the saved form of a machine (SavedMachine)  *)
(* and the actions of the editor (src/edit/editor/action.rs).              *)
(*                                                                         *)
(* Rust values are modelled as follows.                                    *)
(*   Option<T>     None is <<>>, Some(x) is <<x>>                          *)
(*   Point3        <<x, y, z>>                                             *)
(*   Dir3          <<axis, sign>>, as the tuple struct Dir3(Axis3, Sign)   *)
(*   PlacedBlock   [rotation_xy |-> 0..3, block |-> Block]                 *)
(*   BlockIndex    a slot number counted from 0, as in the source; the     *)
(*                 slot i of the arena is data.data[i + 1]                 *)
(*   Duration      its number of nanoseconds                               *)
(*   f32           <<m, e>> for m * 2^(-e), m a significand of 24 bits     *)
(* A Machine is the record [indices, data]; an operation that takes        *)
(* &mut self is an operator from a machine to the machine it leaves, with  *)
(* its return value in ret and panicked = TRUE when it panics part way.    *)
(***************************************************************************)
EXTENDS Integers, Sequences, FiniteSets, TLC

VARIABLES indices, data, panicked, last, pc, slice, level, placed0, placed, ops,
          exec, data0, spawned, timer, view, editor

vars == <<indices, data, panicked, last, pc, slice, level, placed0, placed, ops,
          exec, data0, spawned, timer, view, editor>>

\* The grid sizes handed to new_sandbox / new_from_block_data: a slab in the
\* X-Z plane and a column along Y.
Sizes == {<<2, 1, 2>>, <<1, 2, 1>>}
\* Largest number of live blocks the actions build up.
MaxBlocks == 3
\* Longest block_data slice handed to new_from_block_data.
MaxSlice == 3
\* Largest input_dim / output_dim of a level.
MaxDim == 3
\* Largest number of rotate_cw_xy / rotate_ccw_xy / with_kind calls on one
\* placed block.
MaxOps == 4
\* Largest tick number the tick engine is run to.
MaxTicks == 4
\* Largest number of live blips a mouse press adds a blip to.
MaxBlips == 1
\* Longest time a Timer is let to accumulate, and the longest time added
\* to it at once.
MaxAccum == 7
MaxAdd == 4
\* Largest number of BlipKind::next calls on one block.
MaxNext == 3
\* Longest time of one frame, in nanoseconds.
MaxDt == 200000000
\* Largest number of ticks an ExecView is run for.
MaxViewTicks == 1

None == <<>>
Some(x) == <<x>>

----------------------------------------------------------------------------
\* Grid3 and Dir3 (machine/grid.rs)

X_NEG == <<"X", "Neg">>
X_POS == <<"X", "Pos">>
Y_NEG == <<"Y", "Neg">>
Y_POS == <<"Y", "Pos">>
Z_NEG == <<"Z", "Neg">>
Z_POS == <<"Z", "Pos">>

Dir3_ALL == <<X_NEG, X_POS, Y_NEG, Y_POS, Z_NEG, Z_POS>>

to_vector(dir) ==
    LET s == IF dir[2] = "Pos" THEN 1 ELSE -1
    IN  CASE dir[1] = "X" -> <<s, 0, 0>>
          [] dir[1] = "Y" -> <<0, s, 0>>
          [] dir[1] = "Z" -> <<0, 0, s>>

PointAdd(p, v) == <<p[1] + v[1], p[2] + v[2], p[3] + v[3]>>

Dirs == {Dir3_ALL[k] : k \in 1 .. 6}

\* Dir3::invert
invert(dir) == <<dir[1], IF dir[2] = "Pos" THEN "Neg" ELSE "Pos">>

\* Dir3::rotated_cw_xy: a quarter turn in the X-Y plane; Z stays.
rotated_cw_xy(dir) ==
    CASE dir = X_POS -> Y_NEG
      [] dir = Y_NEG -> X_NEG
      [] dir = X_NEG -> Y_POS
      [] dir = Y_POS -> X_POS
      [] OTHER -> dir

\* Dir3::rotated_ccw_xy: the quarter turn the other way.
rotated_ccw_xy(dir) ==
    CASE dir = X_POS -> Y_POS
      [] dir = Y_POS -> X_NEG
      [] dir = X_NEG -> Y_NEG
      [] dir = Y_NEG -> X_POS
      [] OTHER -> dir

\* A Grid3 is [size |-> <<x, y, z>>, cells |-> function on its positions].
GridPositions(sz) ==
    (0 .. sz[1] - 1) \X (0 .. sz[2] - 1) \X (0 .. sz[3] - 1)

\* Grid3::is_valid_pos
grid_is_valid_pos(g, p) ==
    /\ p[1] >= 0 /\ p[1] < g.size[1]
    /\ p[2] >= 0 /\ p[2] < g.size[2]
    /\ p[3] >= 0 /\ p[3] < g.size[3]

\* Grid3::new: every cell holds the default, None.
grid_new(sz) == [size |-> sz, cells |-> [p \in GridPositions(sz) |-> None]]

\* Grid3::get: bounds-checked, None outside the grid.
grid_get(g, p) == IF grid_is_valid_pos(g, p) THEN Some(g.cells[p]) ELSE None

\* Grid3 IndexMut, grid[p] = value, for a position of the grid; outside
\* the grid the indexing panics, which the caller models.
grid_set(g, p, value) == [g EXCEPT !.cells[p] = value]

----------------------------------------------------------------------------
\* VecOption (util/vec_option.rs): a vector of optional entries with a free
\* list. A VecOption is [data |-> sequence of Option, free |-> sequence of
\* freed slot numbers].

vec_new == [data |-> <<>>, free |-> <<>>]

vec_live(v) == {i \in 0 .. Len(v.data) - 1 : v.data[i + 1] # None}

vec_len(v) == Cardinality(vec_live(v))

vec_num_free(v) == Len(v.data) - vec_len(v)

\* add: reuse the slot freed last, else push; returns the slot.
vec_add(v, x) ==
    IF v.free # <<>>
    THEN LET i == v.free[Len(v.free)]
         IN  [v  |-> [data |-> [v.data EXCEPT ![i + 1] = Some(x)],
                      free |-> SubSeq(v.free, 1, Len(v.free) - 1)],
              id |-> i]
    ELSE [v  |-> [data |-> Append(v.data, Some(x)), free |-> v.free],
          id |-> Len(v.data)]

\* remove: take the entry out of slot i, leaving a hole; None if it was a
\* hole already. (i < Len(v.data); the caller models the index panic.)
vec_remove(v, i) ==
    LET value == v.data[i + 1]
    IN  IF value # None
        THEN [v     |-> [data |-> [v.data EXCEPT ![i + 1] = None],
                         free |-> Append(v.free, i)],
              value |-> value]
        ELSE [v |-> v, value |-> None]

\* gc: drop the holes, keeping the order of the live entries.
vec_gc(v) == [data |-> SelectSeq(v.data, LAMBDA e : e # None), free |-> <<>>]

\* iter: the live entries as <<slot, entry>>, by ascending slot.
RECURSIVE vec_iter_from(_, _)
vec_iter_from(v, i) ==
    IF i >= Len(v.data) THEN <<>>
    ELSE IF v.data[i + 1] # None
         THEN <<(<<i, v.data[i + 1][1]>>)>> \o vec_iter_from(v, i + 1)
         ELSE vec_iter_from(v, i + 1)

vec_iter(v) == vec_iter_from(v, 0)

----------------------------------------------------------------------------
\* BlipKind, Block and PlacedBlock (machine/mod.rs). A Block is a record
\* with its variant in tag and the fields of the variant.

BlipKinds == {"A", "B", "C"}

\* BlipKind::next that swaps A and B and keeps C.
next_swap(k) ==
    CASE k = "A" -> "B"
      [] k = "B" -> "A"
      [] k = "C" -> "C"

\* BlipKind::next
next(k) ==
    CASE k = "A" -> "B"
      [] k = "B" -> "C"
      [] k = "C" -> "A"

Pipe(a, b) == [tag |-> "Pipe", dir_a |-> a, dir_b |-> b]
PipeSplitXY(sgn) == [tag |-> "PipeSplitXY", open_move_hole_y |-> sgn]
PipeMergeXY == [tag |-> "PipeMergeXY"]
FunnelXY == [tag |-> "FunnelXY"]
WindSource == [tag |-> "WindSource"]
BlipSpawn(k, n, act) == [tag |-> "BlipSpawn", kind |-> k, num_spawns |-> n, activated |-> act]
BlipDuplicator(k, act) == [tag |-> "BlipDuplicator", kind |-> k, activated |-> act]
BlipWindSource(act) == [tag |-> "BlipWindSource", activated |-> act]
Solid == [tag |-> "Solid"]
Input(i, ins, act) == [tag |-> "Input", index |-> i, inputs |-> ins, activated |-> act]
Output(i, exp) == [tag |-> "Output", index |-> i, expected_next_kind |-> exp]

\* Block::kind
kind(b) ==
    CASE b.tag = "BlipSpawn" -> Some(b.kind)
      [] b.tag = "BlipDuplicator" -> b.kind
      [] OTHER -> None

\* Block::with_kind
with_kind(b, new_kind) ==
    CASE b.tag = "BlipSpawn" -> [b EXCEPT !.kind = new_kind]
      [] b.tag = "BlipDuplicator" -> [b EXCEPT !.kind = Some(new_kind)]
      [] OTHER -> b

\* Block::has_wind_hole
block_has_wind_hole(b, dir) ==
    CASE b.tag = "Pipe" -> dir = b.dir_a \/ dir = b.dir_b
      [] b.tag = "PipeSplitXY" -> dir = Y_NEG \/ dir = Y_POS \/ dir = X_POS
      [] b.tag = "PipeMergeXY" -> dir # Z_NEG /\ dir # Z_POS
      [] b.tag = "FunnelXY" -> dir = Y_NEG \/ dir = Y_POS
      [] b.tag = "WindSource" -> TRUE
      [] b.tag = "BlipSpawn" -> TRUE
      [] b.tag = "BlipDuplicator" -> TRUE
      [] b.tag = "Solid" -> TRUE
      [] b.tag = "BlipWindSource" -> TRUE
      [] b.tag = "Input" -> dir = X_POS
      [] b.tag = "Output" -> dir # Z_NEG

\* Block::has_wind_hole_in
block_has_wind_hole_in(b, dir) ==
    CASE b.tag = "FunnelXY" -> dir = Y_NEG
      [] b.tag = "WindSource" -> FALSE
      [] OTHER -> block_has_wind_hole(b, dir)

\* Block::has_wind_hole_out with a BlipWindSource that blows only while it
\* is activated.
block_has_wind_hole_out_activated(b, dir) ==
    CASE b.tag = "FunnelXY" -> dir = Y_POS
      [] b.tag = "BlipDuplicator" -> FALSE
      [] b.tag = "BlipWindSource" -> b.activated /\ dir # Y_NEG
      [] b.tag = "Output" -> FALSE
      [] OTHER -> block_has_wind_hole(b, dir)

\* Block::has_wind_hole_out without the case of the BlipWindSource.
block_has_wind_hole_out_button(b, dir) ==
    CASE b.tag = "FunnelXY" -> dir = Y_POS
      [] b.tag = "BlipDuplicator" -> FALSE
      [] b.tag = "Output" -> FALSE
      [] OTHER -> block_has_wind_hole(b, dir)

\* Block::has_wind_hole_out
block_has_wind_hole_out(b, dir) ==
    CASE b.tag = "FunnelXY" -> dir = Y_POS
      [] b.tag = "BlipDuplicator" -> FALSE
      [] b.tag = "BlipWindSource" -> dir # Y_NEG
      [] b.tag = "Output" -> FALSE
      [] OTHER -> block_has_wind_hole(b, dir)

\* Block::has_move_hole with both Y branches of the PipeSplitXY open.
block_has_move_hole_split(b, dir) ==
    CASE b.tag = "PipeSplitXY" -> dir = Y_NEG \/ dir = Y_POS \/ dir = X_POS
      [] b.tag = "BlipDuplicator" -> dir # X_NEG \/ dir # X_POS
      [] b.tag = "BlipWindSource" -> dir = Y_NEG
      [] OTHER -> block_has_wind_hole(b, dir)

\* Block::has_move_hole
block_has_move_hole(b, dir) ==
    CASE b.tag = "PipeSplitXY" -> dir = <<"Y", b.open_move_hole_y>> \/ dir = X_POS
      [] b.tag = "BlipDuplicator" -> dir # X_NEG \/ dir # X_POS
      [] b.tag = "BlipWindSource" -> dir = Y_NEG
      [] OTHER -> block_has_wind_hole(b, dir)

PlacedBlock(r, b) == [rotation_xy |-> r, block |-> b]

\* PlacedBlock::rotate_cw_xy that wraps one step late.
rotate_cw_xy_late(pb) ==
    LET r == pb.rotation_xy + 1
    IN  [pb EXCEPT !.rotation_xy = IF r = 5 THEN 0 ELSE r]

\* PlacedBlock::rotate_cw_xy
rotate_cw_xy(pb) ==
    LET r == pb.rotation_xy + 1
    IN  [pb EXCEPT !.rotation_xy = IF r = 4 THEN 0 ELSE r]

\* PlacedBlock::rotate_ccw_xy
rotate_ccw_xy(pb) ==
    [pb EXCEPT !.rotation_xy = IF pb.rotation_xy = 0 THEN 3 ELSE pb.rotation_xy - 1]

\* The loop of rotated_dir_xy / rotated_dir_ccw_xy: n quarter turns.
RECURSIVE turn_cw(_, _)
turn_cw(dir, n) == IF n = 0 THEN dir ELSE turn_cw(rotated_cw_xy(dir), n - 1)

RECURSIVE turn_ccw(_, _)
turn_ccw(dir, n) == IF n = 0 THEN dir ELSE turn_ccw(rotated_ccw_xy(dir), n - 1)

\* PlacedBlock::rotated_dir_xy
rotated_dir_xy(pb, dir) == turn_cw(dir, pb.rotation_xy)

\* PlacedBlock::rotated_dir_ccw_xy
rotated_dir_ccw_xy(pb, dir) == turn_ccw(dir, pb.rotation_xy)

\* PlacedBlock::has_wind_hole that turns the direction the wrong way.
placed_has_wind_hole_cw(pb, dir) ==
    block_has_wind_hole(pb.block, rotated_dir_xy(pb, dir))

\* PlacedBlock::has_wind_hole
placed_has_wind_hole(pb, dir) ==
    block_has_wind_hole(pb.block, rotated_dir_ccw_xy(pb, dir))

\* PlacedBlock::has_move_hole
placed_has_move_hole(pb, dir) ==
    block_has_move_hole(pb.block, rotated_dir_ccw_xy(pb, dir))

\* PlacedBlock::has_wind_hole_in
placed_has_wind_hole_in(pb, dir) ==
    block_has_wind_hole_in(pb.block, rotated_dir_ccw_xy(pb, dir))

\* PlacedBlock::has_wind_hole_out
placed_has_wind_hole_out(pb, dir) ==
    block_has_wind_hole_out(pb.block, rotated_dir_ccw_xy(pb, dir))

----------------------------------------------------------------------------
\* Machine (machine/mod.rs)

\* The placed blocks the operations are tried with.
Solid0 == [rotation_xy |-> 0, block |-> [tag |-> "Solid"]]
WindSource1 == [rotation_xy |-> 1, block |-> [tag |-> "WindSource"]]
BlockInputs == {Solid0, WindSource1}

Machine(ind, dat) == [indices |-> ind, data |-> dat]

\* Result of a &mut self operation.
Done(ind, dat, r) == [indices |-> ind, data |-> dat, panicked |-> FALSE, ret |-> r]
Panic(ind, dat) == [indices |-> ind, data |-> dat, panicked |-> TRUE, ret |-> None]

new_sandbox(sz) == Machine(grid_new(sz), vec_new)

size(m) == m.indices.size

is_valid_pos(m, p) == grid_is_valid_pos(m.indices, p)

num_blocks(m) == vec_len(m.data)

is_contiguous(m) == vec_num_free(m.data) = 0

iter_blocks(m) == vec_iter(m.data)

\* get_block_at_pos: [panicked, ret]; indexing a hole of the arena, or past
\* its end, panics.
get_block_at_pos(m, p) ==
    LET cell == grid_get(m.indices, p)
    IN  IF cell = None \/ cell[1] = None
        THEN [panicked |-> FALSE, ret |-> None]
        ELSE LET id == cell[1][1]
             IN  IF id >= Len(m.data.data) \/ m.data.data[id + 1] = None
                 THEN [panicked |-> TRUE, ret |-> None]
                 ELSE [panicked |-> FALSE,
                       ret |-> Some(<<id, m.data.data[id + 1][1][2]>>)]

\* block_pos_at_index: [panicked, ret]; indexing a hole panics.
block_pos_at_index(m, index) ==
    IF index >= Len(m.data.data) \/ m.data.data[index + 1] = None
    THEN [panicked |-> TRUE, ret |-> None]
    ELSE [panicked |-> FALSE, ret |-> Some(m.data.data[index + 1][1][1])]

\* get_block_at_pos_mut: as get_block_at_pos, through a mutable borrow.
get_block_at_pos_mut(m, p) ==
    LET cell == grid_get(m.indices, p)
    IN  IF cell = None \/ cell[1] = None
        THEN [panicked |-> FALSE, ret |-> None]
        ELSE LET id == cell[1][1]
             IN  IF id >= Len(m.data.data) \/ m.data.data[id + 1] = None
                 THEN [panicked |-> TRUE, ret |-> None]
                 ELSE [panicked |-> FALSE,
                       ret |-> Some(<<id, m.data.data[id + 1][1][2]>>)]

\* remove_at_pos that forgets to clear the grid cell.
remove_at_pos_keep_cell(m, p) ==
    LET cell == grid_get(m.indices, p)
    IN  IF cell # None /\ cell[1] # None
        THEN LET id == cell[1][1]
             IN  IF id >= Len(m.data.data)
                 THEN Panic(m.indices, m.data)
                 ELSE LET r == vec_remove(m.data, id)
                      IN  IF r.value = None
                          THEN Done(m.indices, r.v, None)
                          ELSE Done(m.indices, r.v, Some(<<id, r.value[1][2]>>))
        ELSE Done(m.indices, m.data, None)

\* remove_at_pos that indexes the grid instead of using the checked get.
remove_at_pos_unchecked(m, p) ==
    IF ~grid_is_valid_pos(m.indices, p) THEN Panic(m.indices, m.data)
    ELSE IF m.indices.cells[p] # None
         THEN LET id == m.indices.cells[p][1]
                  ind == grid_set(m.indices, p, None)
                  r == vec_remove(m.data, id)
              IN  IF r.value = None THEN Done(ind, r.v, None)
                  ELSE Done(ind, r.v, Some(<<id, r.value[1][2]>>))
         ELSE Done(m.indices, m.data, None)

remove_at_pos(m, p) ==
    LET cell == grid_get(m.indices, p)
    IN  IF cell # None /\ cell[1] # None
        THEN LET id == cell[1][1]
                 ind == grid_set(m.indices, p, None)
             IN  IF id >= Len(m.data.data)
                 THEN Panic(ind, m.data)
                 ELSE LET r == vec_remove(m.data, id)
                      IN  IF r.value = None
                          THEN Done(ind, r.v, None)
                          ELSE IF r.value[1][1] # p
                               THEN Panic(ind, r.v)
                               ELSE Done(ind, r.v, Some(<<id, r.value[1][2]>>))
        ELSE Done(m.indices, m.data, None)

\* The loop of gc over data.iter(): indices[grid_pos] = Some(index).
RECURSIVE gc_reindex(_, _, _)
gc_reindex(ind, it, k) ==
    IF k > Len(it) THEN Done(ind, None, None)
    ELSE IF grid_is_valid_pos(ind, it[k][2][1])
         THEN gc_reindex(grid_set(ind, it[k][2][1], Some(it[k][1])), it, k + 1)
         ELSE Panic(ind, None)

\* gc that compacts the arena and leaves the grid as it was.
gc_no_resync(m) ==
    [indices |-> m.indices, data |-> vec_gc(m.data), panicked |-> FALSE, ret |-> None]

\* gc that writes the slot numbers into the grid one too high.
gc_off_by_one(m) ==
    LET dat == vec_gc(m.data)
        it == vec_iter(dat)
        r == gc_reindex(m.indices, [k \in 1 .. Len(it) |-> <<it[k][1] + 1, it[k][2]>>], 1)
    IN  [indices |-> r.indices, data |-> dat, panicked |-> r.panicked, ret |-> None]

gc(m) ==
    LET dat == vec_gc(m.data)
        r == gc_reindex(m.indices, vec_iter(dat), 1)
    IN  [indices |-> r.indices, data |-> dat, panicked |-> r.panicked, ret |-> None]

\* set_block_at_pos that does not remove the occupant first.
set_block_at_pos_no_remove(m, p, block) ==
    IF block # None
    THEN LET a == vec_add(m.data, <<p, block[1]>>)
         IN  IF grid_is_valid_pos(m.indices, p)
             THEN Done(grid_set(m.indices, p, Some(a.id)), a.v, None)
             ELSE Panic(m.indices, a.v)
    ELSE Done(m.indices, m.data, None)

\* set_block_at_pos that compacts the arena before it inserts.
set_block_at_pos_compact(m, p, block) ==
    LET r == remove_at_pos(m, p)
        g == gc(Machine(r.indices, r.data))
    IN  IF r.panicked THEN r
        ELSE IF block # None
             THEN LET a == vec_add(g.data, <<p, block[1]>>)
                  IN  IF grid_is_valid_pos(m.indices, p)
                      THEN Done(grid_set(g.indices, p, Some(a.id)), a.v, None)
                      ELSE Panic(g.indices, a.v)
             ELSE Done(r.indices, r.data, None)

\* set_block_at_pos that leaves an occupied cell as it is.
set_block_at_pos_keep(m, p, block) ==
    IF grid_is_valid_pos(m.indices, p) /\ m.indices.cells[p] # None /\ block # None
    THEN Done(m.indices, m.data, None)
    ELSE LET r == remove_at_pos(m, p)
         IN  IF r.panicked THEN r
             ELSE IF block # None
                  THEN LET a == vec_add(r.data, <<p, block[1]>>)
                       IN  IF grid_is_valid_pos(m.indices, p)
                           THEN Done(grid_set(r.indices, p, Some(a.id)), a.v, None)
                           ELSE Panic(r.indices, a.v)
                  ELSE Done(r.indices, r.data, None)

\* block is an Option<PlacedBlock>. Writing indices[p] outside the grid
\* panics, after the arena took the block.
set_block_at_pos(m, p, block) ==
    LET r == remove_at_pos(m, p)
    IN  IF r.panicked THEN r
        ELSE IF block # None
             THEN LET a == vec_add(r.data, <<p, block[1]>>)
                  IN  IF grid_is_valid_pos(m.indices, p)
                      THEN Done(grid_set(r.indices, p, Some(a.id)), a.v, None)
                      ELSE Panic(r.indices, a.v)
             ELSE Done(r.indices, r.data, None)

\* iter_neighbors that looks only at the neighbours in the X-Y plane.
RECURSIVE iter_neighbors_xy_from(_, _, _)
iter_neighbors_xy_from(m, pos, k) ==
    IF k > 4 THEN <<>>
    ELSE LET dir == Dir3_ALL[k]
             cell == grid_get(m.indices, PointAdd(pos, to_vector(dir)))
         IN  IF cell # None /\ cell[1] # None
             THEN <<(<<dir, cell[1][1]>>)>> \o iter_neighbors_xy_from(m, pos, k + 1)
             ELSE iter_neighbors_xy_from(m, pos, k + 1)

iter_neighbors_xy(m, pos) == iter_neighbors_xy_from(m, pos, 1)

\* iter_neighbors: the sequence of <<dir, slot>> over Dir3::ALL.
RECURSIVE iter_neighbors_from(_, _, _)
iter_neighbors_from(m, pos, k) ==
    IF k > Len(Dir3_ALL) THEN <<>>
    ELSE LET dir == Dir3_ALL[k]
             cell == grid_get(m.indices, PointAdd(pos, to_vector(dir)))
         IN  IF cell # None /\ cell[1] # None
             THEN <<(<<dir, cell[1][1]>>)>> \o iter_neighbors_from(m, pos, k + 1)
             ELSE iter_neighbors_from(m, pos, k + 1)

iter_neighbors(m, pos) == iter_neighbors_from(m, pos, 1)

\* new_from_block_data: the loop over the slice, from entry k on.
RECURSIVE new_from_block_data_from(_, _, _, _)
new_from_block_data_from(ind, dat, sl, k) ==
    IF k > Len(sl) THEN Done(ind, dat, None)
    ELSE LET a == vec_add(dat, sl[k])
         IN  IF grid_is_valid_pos(ind, sl[k][1])
             THEN new_from_block_data_from(grid_set(ind, sl[k][1], Some(a.id)),
                                           a.v, sl, k + 1)
             ELSE Panic(ind, a.v)

new_from_block_data(sz, sl) ==
    new_from_block_data_from(grid_new(sz), vec_new, sl, 1)

\* A Level as new_from_level reads it: its size and the input_dim() and
\* output_dim() of its spec.
Level(sz, in_dim, out_dim) == [size |-> sz, input_dim |-> in_dim, output_dim |-> out_dim]

\* One of the two loops of new_from_level: the blocks index .. dim - 1 of
\* the column x, from y_start on; r is the machine so far.
RECURSIVE new_from_level_loop(_, _, _, _, _, _)
new_from_level_loop(r, x, y_start, index, dim, tag) ==
    IF index >= dim \/ r.panicked THEN r
    ELSE new_from_level_loop(
             set_block_at_pos(Machine(r.indices, r.data),
                              <<x, y_start + index, 0>>,
                              Some(PlacedBlock(0, IF tag = "Input"
                                                  THEN Input(index, <<>>, None)
                                                  ELSE Output(index, None)))),
             x, y_start, index + 1, dim, tag)

\* new_from_level with columns that start at y = 0.
new_from_level_uncentered(lv) ==
    LET r == new_from_level_loop(Done(grid_new(lv.size), vec_new, None),
                                 0, 0, 0, lv.input_dim, "Input")
    IN  new_from_level_loop(r, lv.size[1] - 1, 0, 0, lv.output_dim, "Output")

new_from_level(lv) ==
    LET input_y_start == (lv.size[2] \div 2) - (lv.input_dim \div 2)
        output_y_start == (lv.size[2] \div 2) - (lv.output_dim \div 2)
        r == new_from_level_loop(Done(grid_new(lv.size), vec_new, None),
                                 0, input_y_start, 0, lv.input_dim, "Input")
    IN  new_from_level_loop(r, lv.size[1] - 1, output_y_start, 0,
                            lv.output_dim, "Output")

----------------------------------------------------------------------------
\* Timer (util/timer.rs). A Duration is its number of nanoseconds; a Timer
\* is [period, accum]. A method that takes &mut self gives [timer, ret].

\* Timer::new
timer_new(period) == [period |-> period, accum |-> 0]

\* Timer::trigger that drops the time beyond the period.
trigger_drop(t) ==
    IF t.accum >= t.period
    THEN [timer |-> [t EXCEPT !.accum = 0], ret |-> TRUE]
    ELSE [timer |-> t, ret |-> FALSE]

\* Timer::trigger; checked_sub cannot fail under accum >= period.
trigger(t) ==
    IF t.accum >= t.period
    THEN [timer |-> [t EXCEPT !.accum = @ - t.period], ret |-> TRUE]
    ELSE [timer |-> t, ret |-> FALSE]

\* Timer::trigger_reset that keeps the time beyond the period.
trigger_reset_keep(t) ==
    IF t.accum >= t.period
    THEN [timer |-> [t EXCEPT !.accum = @ - t.period], ret |-> TRUE]
    ELSE [timer |-> t, ret |-> FALSE]

\* Timer::trigger_reset
trigger_reset(t) ==
    IF t.accum >= t.period
    THEN [timer |-> [t EXCEPT !.accum = 0], ret |-> TRUE]
    ELSE [timer |-> t, ret |-> FALSE]

\* Timer::reset
reset(t) == [timer |-> [t EXCEPT !.accum = 0], ret |-> t.accum >= t.period]

\* AddAssign<Duration> for Timer; checked_add fails only beyond the range
\* of Duration, which no time here comes near.
add_assign(t, other) == [t EXCEPT !.accum = @ + other]

----------------------------------------------------------------------------
\* f32 values that are not negative: <<m, e>> is m * 2^(-e), with m = 0 and
\* e = 0 for zero and F32_MIN_MANT <= m < 2 * F32_MIN_MANT otherwise (the
\* 24 bits of the significand).

\* 2^23, the least significand of a normal f32.
F32_MIN_MANT == 8388608

RECURSIVE Pow2(_)
Pow2(n) == IF n = 0 THEN 1 ELSE 2 * Pow2(n - 1)

\* q + r / den rounded to the nearest integer, ties to the even one
\* (0 <= r < den); r is compared with den - r, which is 2 * r with den.
round_half_even(q, r, den) ==
    IF r > den - r THEN q + 1
    ELSE IF r = den - r THEN q + (q % 2)
    ELSE q

\* <<m, e>> with m up to 2 * F32_MIN_MANT, as rounding hands it over.
f32_norm(m, e) ==
    IF m = 2 * F32_MIN_MANT THEN <<F32_MIN_MANT, e - 1>> ELSE <<m, e>>

\* The f32 nearest to (q + r / den) * 2^(-e), where q < 2 * F32_MIN_MANT
\* and 0 <= r < den, not both zero: binary long division until q has 24
\* bits, then rounding.
RECURSIVE f32_from(_, _, _, _)
f32_from(q, r, den, e) ==
    IF q >= F32_MIN_MANT THEN f32_norm(round_half_even(q, r, den), e)
    ELSE IF r >= den - r
         THEN f32_from(2 * q + 1, r - (den - r), den, e + 1)
         ELSE f32_from(2 * q, r + r, den, e + 1)

\* `(a / b) as f32` for integers a >= 0 and b > 0 with a / b < 2^24. The
\* program divides in f64 and then casts; for the times used here that
\* gives the f32 nearest to the quotient.
f32_quot(a, b) ==
    IF a = 0 THEN <<0, 0>> ELSE f32_from(a \div b, a % b, b, 0)

\* `n as f32` for an integer 0 <= n < 2^24, which is exact.
f32_of(n) == f32_quot(n, 1)

\* x < y and x <= y in f32.
f32_lt(x, y) ==
    IF y[1] = 0 THEN FALSE
    ELSE IF x[1] = 0 THEN TRUE
    ELSE x[2] > y[2] \/ (x[2] = y[2] /\ x[1] < y[1])

f32_le(x, y) == x = y \/ f32_lt(x, y)

\* x + y in f32 for 0 < y <= x: y is counted in units of the last place of
\* x, of which it has less than a quarter from 26 binary places down.
f32_add_ord(x, y) ==
    LET s == y[2] - x[2]
    IN  IF s >= 26 THEN x
        ELSE LET den == Pow2(s)
                 q == x[1] + (y[1] \div den)
                 r == y[1] % den
             IN  IF q < 2 * F32_MIN_MANT
                 THEN f32_norm(round_half_even(q, r, den), x[2])
                 ELSE f32_norm(round_half_even(q \div 2, (q % 2) * den + r, 2 * den),
                               x[2] - 1)

\* x + y in f32.
f32_add(x, y) ==
    IF x[1] = 0 THEN y
    ELSE IF y[1] = 0 THEN x
    ELSE IF f32_le(y, x) THEN f32_add_ord(x, y)
    ELSE f32_add_ord(y, x)

----------------------------------------------------------------------------
\* Tick engine (exec/mod.rs: Exec, WindState, Blip), after spec section 4.3.
\* An Exec is [cur_tick, wind_state, old_wind_state, blips] next to its
\* machine; a wind state is, per slot, the set of directions wind comes in
\* from; a Blip is [pos, old_pos, kind].

\* WindState::wind_in
wind_in(ws, dir) == dir \in ws

Blip(p, old, k) == [pos |-> p, old_pos |-> old, kind |-> k]

\* The block next to pos in direction dir: None or Some(<<slot, block>>).
neighbor_at(m, pos, dir) == get_block_at_pos(m, PointAdd(pos, to_vector(dir))).ret

\* Exec::new
exec_new(m) ==
    [cur_tick |-> 0,
     wind_state |-> [i \in 1 .. Len(m.data.data) |-> {}],
     old_wind_state |-> [i \in 1 .. Len(m.data.data) |-> {}],
     blips |-> <<>>]

\* Step 1 of a tick, from pair n on: pair n is the block n \div 6 of `it`
\* with the direction n % 6 of Dir3::ALL. An outbound wind port that faces
\* a neighbour with the opposing inbound port marks that port in w.
RECURSIVE update_wind_from(_, _, _, _)
update_wind_from(m, it, w, n) ==
    IF n >= 6 * Len(it) THEN w
    ELSE LET e == it[(n \div 6) + 1]
             dir == Dir3_ALL[(n % 6) + 1]
             nb == neighbor_at(m, e[2][1], dir)
         IN  IF /\ placed_has_wind_hole_out(e[2][2], dir)
                /\ nb # None
                /\ placed_has_wind_hole_in(nb[1][2], invert(dir))
             THEN update_wind_from(m, it,
                      [w EXCEPT ![nb[1][1] + 1] = @ \cup {invert(dir)}], n + 1)
             ELSE update_wind_from(m, it, w, n + 1)

\* Step 1 in which a block other than a WindSource blows only where the old
\* wind state has wind coming into it.
update_wind_carry(m, old_wind_state, bl) ==
    LET it == iter_blocks(m)
        blowing == SelectSeq(it, LAMBDA e : e[2][2].block.tag = "WindSource"
                                              \/ old_wind_state[e[1] + 1] # {})
    IN  update_wind_from(m, blowing, [i \in 1 .. Len(m.data.data) |-> {}], 0)

\* Step 1 of a tick: the new wind state of machine m. The old wind state
\* and the blips are at hand and are not read.
update_wind(m, old_wind_state, bl) ==
    update_wind_from(m, iter_blocks(m), [i \in 1 .. Len(m.data.data) |-> {}], 0)

\* The directions in which a blip leaves the block pb at pos: an open move
\* port that faces a neighbour with the opposing move port.
move_dirs(m, pos, pb) ==
    SelectSeq(Dir3_ALL,
              LAMBDA dir : LET nb == neighbor_at(m, pos, dir)
                           IN  /\ placed_has_move_hole(pb, dir)
                               /\ nb # None
                               /\ placed_has_move_hole(nb[1][2], invert(dir)))

\* Does the duplicator b take a blip of kind k?
duplicator_takes(b, k) == b.tag = "BlipDuplicator" /\ (b.kind = None \/ b.kind = Some(k))

\* The machine data with the block of slot i replaced by b.
with_block(dat, i, b) == [dat EXCEPT !.data[i + 1][1][2].block = b]

\* The first blip of bl at pos that the duplicator b takes: its place in
\* bl, or 0.
resident_at(bl, pos, b) ==
    LET ks == {k \in 1 .. Len(bl) : bl[k].pos = pos /\ duplicator_takes(b, bl[k].kind)}
    IN  IF ks = {} THEN 0 ELSE CHOOSE k \in ks : \A j \in ks : k <= j

remove_blip(bl, k) == [j \in 1 .. Len(bl) - 1 |-> IF j < k THEN bl[j] ELSE bl[j + 1]]

\* One blip from pos to each direction of dirs, from direction k on.
RECURSIVE blips_to(_, _, _, _)
blips_to(pos, dirs, kd, k) ==
    IF k > Len(dirs) THEN <<>>
    ELSE <<Blip(PointAdd(pos, to_vector(dirs[k])), Some(pos), kd)>>
             \o blips_to(pos, dirs, kd, k + 1)

\* Step 2 of a tick for the BlipSpawn b in slot i at pos; fire says whether
\* it is activated. st is [data, blips, created, spawned].
activate_spawn_unlimited(st, i, pos, b, tick, fire) ==
    IF fire
    THEN [st EXCEPT !.data = with_block(@, i, [b EXCEPT !.activated = Some(tick)]),
                    !.created = Append(@, Blip(pos, None, b.kind)),
                    !.spawned = @ + 1]
    ELSE [st EXCEPT !.data = with_block(@, i, [b EXCEPT !.activated = None])]

activate_spawn(st, i, pos, b, tick, fire) ==
    IF fire /\ b.num_spawns # Some(0)
    THEN [st EXCEPT !.data = with_block(@, i,
                        [b EXCEPT !.activated = Some(tick),
                                  !.num_spawns = IF @ = None THEN None
                                                 ELSE Some(@[1] - 1)]),
                    !.created = Append(@, Blip(pos, None, b.kind)),
                    !.spawned = @ + 1]
    ELSE [st EXCEPT !.data = with_block(@, i, [b EXCEPT !.activated = None])]

\* Step 2 of a tick for the BlipDuplicator b in slot i at pos: an activated
\* duplicator sends a blip of the kind that activated it through each of
\* its open move ports and is idle again; then a blip it takes that sits on
\* it is destroyed and activates it.
activate_duplicator(m, st, i, pos, pb) ==
    LET b == pb.block
        sent == IF b.activated = None THEN <<>>
                ELSE blips_to(pos, move_dirs(m, pos, pb), b.activated[1], 1)
        k == resident_at(st.blips, pos, b)
    IN  [st EXCEPT !.data = with_block(@, i,
                        [b EXCEPT !.activated = IF k = 0 THEN None
                                                ELSE Some(st.blips[k].kind)]),
                   !.blips = IF k = 0 THEN @ ELSE remove_blip(@, k),
                   !.created = @ \o sent]

\* Step 2 of a tick, from block k of `it` on.
RECURSIVE activate_from(_, _, _, _, _, _)
activate_from(m, st, it, k, tick, fire) ==
    IF k > Len(it) THEN st
    ELSE LET i == it[k][1]
             pos == it[k][2][1]
             pb == it[k][2][2]
             st1 == CASE pb.block.tag = "BlipSpawn" ->
                            activate_spawn(st, i, pos, pb.block, tick, fire)
                      [] pb.block.tag = "BlipDuplicator" ->
                            activate_duplicator(m, st, i, pos, pb)
                      [] OTHER -> st
         IN  activate_from(m, st1, it, k + 1, tick, fire)

\* Steps 3 and 4 of a tick for one blip: the blips it may become, as
\* sequences of length 0 (destroyed or consumed) or 1.
move_blip(m, b) ==
    LET g == get_block_at_pos(m, b.pos).ret
    IN  IF g = None THEN {<<>>}
        ELSE LET pb == g[1][2]
                 dirs == move_dirs(m, b.pos, pb)
                 ahead == {k \in 1 .. Len(dirs) :
                              Some(PointAdd(b.pos, to_vector(dirs[k]))) # b.old_pos}
             IN  IF pb.block.tag \in {"Solid", "Output"} THEN {<<>>}
                 ELSE IF duplicator_takes(pb.block, b.kind) THEN {<<b>>}
                 ELSE IF ahead = {} THEN {<<>>}
                 ELSE {IF neighbor_at(m, b.pos, dirs[k])[1][2].block.tag = "Solid"
                       THEN <<>>
                       ELSE <<Blip(PointAdd(b.pos, to_vector(dirs[k])), Some(b.pos), b.kind)>> :
                          k \in ahead}

\* Steps 3 and 4 of a tick: the blip collections the blips bl may become.
RECURSIVE move_blips(_, _)
move_blips(m, bl) ==
    IF bl = <<>> THEN {<<>>}
    ELSE {h \o t : h \in move_blip(m, Head(bl)), t \in move_blips(m, Tail(bl))}

\* Exec::update: the states [data, exec, spawned] one tick may lead to; fire
\* says whether the BlipSpawn blocks are activated in this tick.
update(m, ex, fire) ==
    LET st == activate_from(m, [data |-> m.data, blips |-> ex.blips,
                                created |-> <<>>, spawned |-> 0],
                            iter_blocks(m), 1, ex.cur_tick, fire)
    IN  {[data |-> st.data,
          spawned |-> st.spawned,
          exec |-> [cur_tick |-> ex.cur_tick + 1,
                    wind_state |-> update_wind(m, ex.wind_state, ex.blips),
                    old_wind_state |-> ex.wind_state,
                    blips |-> moved \o st.created]] :
            moved \in move_blips(m, st.blips)}

\* Exec::try_spawn_blip: nothing without a block at grid_pos or with a blip
\* already there.
try_spawn_blip(is_player_triggered, k, grid_pos, ind, bl) ==
    IF ~grid_is_valid_pos(ind, grid_pos) THEN bl
    ELSE IF grid_get(ind, grid_pos)[1] = None THEN bl
    ELSE IF \E j \in 1 .. Len(bl) : bl[j].pos = grid_pos THEN bl
    ELSE Append(bl, Blip(grid_pos, None, k))

\* ExecView::wind_dir_pairs without the invert of the neighbour's side.
wind_dir_pairs_same_side(m, wind_state, block_index, block_pos) ==
    LET out_dirs == SelectSeq(iter_neighbors(m, block_pos),
                        LAMBDA e : wind_in(wind_state[e[2] + 1], e[1]))
        in_dirs == SelectSeq(Dir3_ALL,
                        LAMBDA dir : wind_in(wind_state[block_index + 1], dir))
    IN  UNION {IF out_dirs = <<>> THEN {<<in_dirs[j], None>>}
               ELSE {<<in_dirs[j], Some(out_dirs[k][1])>> : k \in 1 .. Len(out_dirs)} :
                  j \in 1 .. Len(in_dirs)}

\* ExecView::wind_dir_pairs
wind_dir_pairs(m, wind_state, block_index, block_pos) ==
    LET out_dirs == SelectSeq(iter_neighbors(m, block_pos),
                        LAMBDA e : wind_in(wind_state[e[2] + 1], invert(e[1])))
        in_dirs == SelectSeq(Dir3_ALL,
                        LAMBDA dir : wind_in(wind_state[block_index + 1], dir))
    IN  UNION {IF out_dirs = <<>> THEN {<<in_dirs[j], None>>}
               ELSE {<<in_dirs[j], Some(out_dirs[k][1])>> : k \in 1 .. Len(out_dirs)} :
                  j \in 1 .. Len(in_dirs)}

----------------------------------------------------------------------------
\* ExecView (exec/view.rs). The view is [config, status, tick_timer,
\* mouse_grid_pos]; its Exec and the Machine in it are passed beside it. A
\* method that runs Exec::update gives the set of [view, data, exec,
\* spawned, ticks] it may lead to, ticks counting the calls of Exec::update.

\* Nanoseconds in a second (Duration::new).
NANOS_PER_SEC == 1000000000

\* Timer::from_hz for a whole hz that is a power of two up to 512: 1.0 / hz,
\* its whole part, its fractional part and that times 1e9 are exact in f32,
\* so secs_to_duration gives the period without rounding.
from_hz(hz) == timer_new(NANOS_PER_SEC \div hz)

\* Timer::progress for a positive period.
progress(t) == f32_quot(t.accum, t.period)

\* Config with the default keys
Config(hz) ==
    [pause_resume_key |-> "Space", stop_key |-> "Escape", frame_key |-> "F",
     default_ticks_per_sec |-> hz]

\* ExecView::new, beside Exec::new(machine)
exec_view_new(config) ==
    [config |-> config,
     status |-> "Playing",
     tick_timer |-> from_hz(config.default_ticks_per_sec),
     mouse_grid_pos |-> None]

\* ExecView::cur_tick_time
cur_tick_time(v, ex) == f32_add(f32_of(ex.cur_tick), progress(v.tick_timer))

\* ExecView::update_mouse_grid_pos: closest_block is the position of the
\* block of the machine the mouse ray hits first, if it hits one.
update_mouse_grid_pos(v, closest_block) ==
    [v EXCEPT !.mouse_grid_pos = closest_block]

\* What a method leads to that runs no tick.
NoTick(v, m, ex) ==
    [view |-> v, data |-> m.data, exec |-> ex, spawned |-> 0, ticks |-> 0]

\* What a method leads to that runs one tick and leaves the view as v.
OneTick(v, m, ex, fire) ==
    {[view |-> v, data |-> u.data, exec |-> u.exec, spawned |-> u.spawned,
      ticks |-> 1] : u \in update(m, ex, fire)}

\* ExecView::update that runs a tick for every period in the timer.
RECURSIVE exec_view_update_catch_up(_, _, _, _, _, _)
exec_view_update_catch_up(v, m, ex, dt, closest_block, fire) ==
    LET v1 == update_mouse_grid_pos(v, closest_block)
        r == trigger(add_assign(v1.tick_timer, dt))
        v2 == [v1 EXCEPT !.tick_timer = r.timer]
    IN  IF v1.status = "Playing" /\ r.ret
        THEN UNION {{[w EXCEPT !.ticks = @ + 1] :
                        w \in exec_view_update_catch_up(
                                  u.view, [m EXCEPT !.data = u.data], u.exec, 0,
                                  closest_block, fire)} :
                       u \in OneTick(v2, m, ex, fire)}
        ELSE {NoTick(IF v1.status = "Playing" THEN v2 ELSE v1, m, ex)}

\* ExecView::update that takes one period off the timer for a tick.
exec_view_update_keep_excess(v, m, ex, dt, closest_block, fire) ==
    LET v1 == update_mouse_grid_pos(v, closest_block)
    IN  IF v1.status = "Playing"
        THEN LET r == trigger(add_assign(v1.tick_timer, dt))
                 v2 == [v1 EXCEPT !.tick_timer = r.timer]
             IN  IF r.ret THEN OneTick(v2, m, ex, fire)
                 ELSE {NoTick(v2, m, ex)}
        ELSE {NoTick(v1, m, ex)}

\* ExecView::update that lets the timer run in every status.
exec_view_update_always(v, m, ex, dt, closest_block, fire) ==
    LET v1 == update_mouse_grid_pos(v, closest_block)
        r == trigger_reset(add_assign(v1.tick_timer, dt))
        v2 == [v1 EXCEPT !.tick_timer = r.timer]
    IN  IF v1.status = "Playing" /\ r.ret THEN OneTick(v2, m, ex, fire)
        ELSE {NoTick(v2, m, ex)}

\* ExecView::update
exec_view_update(v, m, ex, dt, closest_block, fire) ==
    LET v1 == update_mouse_grid_pos(v, closest_block)
    IN  IF v1.status = "Playing"
        THEN LET r == trigger_reset(add_assign(v1.tick_timer, dt))
                 v2 == [v1 EXCEPT !.tick_timer = r.timer]
             IN  IF r.ret THEN OneTick(v2, m, ex, fire)
                 ELSE {NoTick(v2, m, ex)}
        ELSE {NoTick(v1, m, ex)}

\* ExecView::on_key_press whose pause key resumes a stopped view.
on_key_press_resume(v, m, ex, keycode, fire) ==
    IF keycode = v.config.pause_resume_key
    THEN {NoTick([v EXCEPT !.status = IF @ = "Playing" THEN "Paused" ELSE "Playing"],
                 m, ex)}
    ELSE IF keycode = v.config.stop_key
    THEN {NoTick([v EXCEPT !.status = "Stopped"], m, ex)}
    ELSE IF keycode = v.config.frame_key
    THEN OneTick([v EXCEPT !.tick_timer = reset(@).timer], m, ex, fire)
    ELSE {NoTick(v, m, ex)}

\* ExecView::on_key_press whose frame key resets the timer and runs no tick.
on_key_press_reset_only(v, m, ex, keycode, fire) ==
    IF keycode = v.config.pause_resume_key
    THEN {NoTick([v EXCEPT !.status = CASE @ = "Playing" -> "Paused"
                                        [] @ = "Paused" -> "Playing"
                                        [] @ = "Stopped" -> "Stopped"],
                 m, ex)}
    ELSE IF keycode = v.config.stop_key
    THEN {NoTick([v EXCEPT !.status = "Stopped"], m, ex)}
    ELSE IF keycode = v.config.frame_key
    THEN {NoTick([v EXCEPT !.tick_timer = reset(@).timer], m, ex)}
    ELSE {NoTick(v, m, ex)}

\* ExecView::on_key_press whose frame key leaves the timer as it is.
on_key_press_keep_timer(v, m, ex, keycode, fire) ==
    IF keycode = v.config.pause_resume_key
    THEN {NoTick([v EXCEPT !.status = CASE @ = "Playing" -> "Paused"
                                        [] @ = "Paused" -> "Playing"
                                        [] @ = "Stopped" -> "Stopped"],
                 m, ex)}
    ELSE IF keycode = v.config.stop_key
    THEN {NoTick([v EXCEPT !.status = "Stopped"], m, ex)}
    ELSE IF keycode = v.config.frame_key
    THEN OneTick(v, m, ex, fire)
    ELSE {NoTick(v, m, ex)}

\* ExecView::on_key_press
on_key_press(v, m, ex, keycode, fire) ==
    IF keycode = v.config.pause_resume_key
    THEN {NoTick([v EXCEPT !.status = CASE @ = "Playing" -> "Paused"
                                        [] @ = "Paused" -> "Playing"
                                        [] @ = "Stopped" -> "Stopped"],
                 m, ex)}
    ELSE IF keycode = v.config.stop_key
    THEN {NoTick([v EXCEPT !.status = "Stopped"], m, ex)}
    ELSE IF keycode = v.config.frame_key
    THEN OneTick([v EXCEPT !.tick_timer = reset(@).timer], m, ex, fire)
    ELSE {NoTick(v, m, ex)}

\* ExecView::on_mouse_input that spawns at the origin without a block under
\* the mouse.
on_mouse_input_origin(v, ex, ind, state, button) ==
    IF state = "Pressed" /\ button \in {"Left", "Right"}
    THEN [exec |-> [ex EXCEPT !.blips =
                       try_spawn_blip(FALSE, IF button = "Left" THEN "A" ELSE "B",
                                      IF v.mouse_grid_pos = None THEN <<0, 0, 0>>
                                      ELSE v.mouse_grid_pos[1], ind, @)],
          spawns |-> 1]
    ELSE [exec |-> ex, spawns |-> 0]

\* ExecView::on_mouse_input: [exec, spawns], spawns counting the calls of
\* Exec::try_spawn_blip.
on_mouse_input(v, ex, ind, state, button) ==
    IF state = "Pressed" /\ button \in {"Left", "Right"} /\ v.mouse_grid_pos # None
    THEN [exec |-> [ex EXCEPT !.blips =
                       try_spawn_blip(FALSE, IF button = "Left" THEN "A" ELSE "B",
                                      v.mouse_grid_pos[1], ind, @)],
          spawns |-> 1]
    ELSE [exec |-> ex, spawns |-> 0]

----------------------------------------------------------------------------
\* The program: a sandbox machine driven by its operations.

cur == Machine(indices, data)

Occupied(m, p) == grid_is_valid_pos(m.indices, p) /\ m.indices.cells[p] # None

\* The positions the operations are tried at: those of the grid, one beyond
\* each of its six faces, and one beyond each of two opposite corners.
ValidPos(m) == GridPositions(size(m))

OutsidePos(m) ==
    LET sz == size(m)
    IN  {<<-1, 0, 0>>, <<sz[1], 0, 0>>, <<0, -1, 0>>, <<0, sz[2], 0>>,
         <<0, 0, -1>>, <<0, 0, sz[3]>>, <<-1, -1, -1>>, sz}

AllPos(m) == ValidPos(m) \cup OutsidePos(m)

\* What the last operation was: its name, whether its position was in the
\* grid and occupied, whether it was given Some block (for gc: whether the
\* arena had holes), and what it returned.
NoOp == [op |-> "new", valid |-> TRUE, occupied |-> FALSE, some |-> FALSE, ret |-> None]

\* The parts of the state a program does not use stay at these values.
NoOps == [cw |-> 0, ccw |-> 0, with_kind |-> FALSE]
NoLevel == level = None
NoPlaced == placed0 = Solid0 /\ placed = Solid0 /\ ops = NoOps
NoMachine ==
    /\ indices = grid_new(<<1, 1, 1>>) /\ data = vec_new /\ panicked = FALSE
    /\ last = NoOp /\ slice = <<>>
NoExec == exec = None /\ data0 = vec_new /\ spawned = 0
NoView == timer = None /\ view = None
NoEditor == editor = None

Init ==
    /\ \E sz \in Sizes :
          /\ indices = new_sandbox(sz).indices
          /\ data = new_sandbox(sz).data
    /\ panicked = FALSE
    /\ last = NoOp
    /\ pc = "machine"
    /\ slice = <<>>
    /\ NoLevel /\ NoPlaced /\ NoExec /\ NoView /\ NoEditor

Apply(r, l) ==
    /\ indices' = r.indices
    /\ data' = r.data
    /\ panicked' = r.panicked
    /\ last' = l
    /\ UNCHANGED <<pc, slice, level, placed0, placed, ops, exec, data0, spawned, timer, view, editor>>

SetBlockAtPos ==
    /\ pc = "machine" /\ ~panicked
    /\ \E p \in AllPos(cur), block \in {None} \cup {Some(b) : b \in BlockInputs} :
          /\ (block # None /\ ~Occupied(cur, p)) => num_blocks(cur) < MaxBlocks
          /\ Apply(set_block_at_pos(cur, p, block),
                   [op |-> "set_block_at_pos", valid |-> is_valid_pos(cur, p),
                    occupied |-> Occupied(cur, p), some |-> block # None,
                    ret |-> None])

RemoveAtPos ==
    /\ pc = "machine" /\ ~panicked
    /\ \E p \in AllPos(cur) :
          LET r == remove_at_pos(cur, p)
          IN  Apply(r, [op |-> "remove_at_pos", valid |-> is_valid_pos(cur, p),
                        occupied |-> Occupied(cur, p), some |-> FALSE,
                        ret |-> r.ret])

Gc ==
    /\ pc = "machine" /\ ~panicked
    /\ Apply(gc(cur), [op |-> "gc", valid |-> TRUE, occupied |-> FALSE,
                       some |-> ~is_contiguous(cur), ret |-> None])

Next == SetBlockAtPos \/ RemoveAtPos \/ Gc

Spec == Init /\ [][Next]_vars

\* The program that loads a saved block_data slice into a grid of the size
\* the empty machine of the initial state has.
SlicesOfLen(sz, n) == [1 .. n -> GridPositions(sz) \X BlockInputs]

InitLoad ==
    /\ \E sz \in Sizes :
          /\ indices = new_sandbox(sz).indices
          /\ slice \in UNION {SlicesOfLen(sz, n) : n \in 0 .. MaxSlice}
    /\ data = vec_new
    /\ panicked = FALSE
    /\ last = NoOp
    /\ pc = "load"
    /\ NoLevel /\ NoPlaced /\ NoExec /\ NoView /\ NoEditor

NewFromBlockData ==
    /\ pc = "load"
    /\ LET r == new_from_block_data(size(cur), slice)
       IN  /\ indices' = r.indices
           /\ data' = r.data
           /\ panicked' = r.panicked
    /\ last' = [NoOp EXCEPT !.op = "new_from_block_data"]
    /\ pc' = "loaded"
    /\ UNCHANGED <<slice, level, placed0, placed, ops, exec, data0, spawned, timer, view, editor>>

NextLoad == NewFromBlockData

SpecLoad == InitLoad /\ [][NextLoad]_vars

----------------------------------------------------------------------------
\* The program that builds a machine from a level.

\* The sizes of the levels: one and several cells wide, low and high.
LevelSizes == {<<1, 2, 1>>, <<2, 1, 2>>, <<2, 2, 1>>, <<3, 3, 1>>, <<2, 4, 1>>}

InitLevel ==
    /\ \E sz \in LevelSizes, in_dim \in 0 .. MaxDim, out_dim \in 0 .. MaxDim :
          /\ level = Some(Level(sz, in_dim, out_dim))
          /\ indices = grid_new(sz)
    /\ data = vec_new
    /\ panicked = FALSE
    /\ last = NoOp
    /\ slice = <<>>
    /\ pc = "level"
    /\ NoPlaced /\ NoExec /\ NoView /\ NoEditor

NewFromLevel ==
    /\ pc = "level"
    /\ LET r == new_from_level(level[1])
       IN  /\ indices' = r.indices
           /\ data' = r.data
           /\ panicked' = r.panicked
    /\ last' = [NoOp EXCEPT !.op = "new_from_level"]
    /\ pc' = "levelled"
    /\ UNCHANGED <<slice, level, placed0, placed, ops, exec, data0, spawned, timer, view, editor>>

NextLevel == NewFromLevel

SpecLevel == InitLevel /\ [][NextLevel]_vars

----------------------------------------------------------------------------
\* The program that turns and re-kinds one placed block.

OptBlipKinds == {None} \cup {Some(k) : k \in BlipKinds}

\* The blocks the program starts from: every variant, with every value of
\* the fields that shape it and several values of the fields the tick
\* engine writes.
BlockCatalog ==
    {Pipe(a, b) : a \in Dirs, b \in Dirs}
    \cup {PipeSplitXY(sgn) : sgn \in {"Pos", "Neg"}}
    \cup {PipeMergeXY, FunnelXY, WindSource, Solid}
    \cup {BlipSpawn(k, n, act) : k \in BlipKinds, n \in {None, Some(0), Some(1)},
                                 act \in {None, Some(0)}}
    \cup {BlipDuplicator(k, act) : k \in OptBlipKinds, act \in OptBlipKinds}
    \cup {BlipWindSource(act) : act \in BOOLEAN}
    \cup {Input(i, ins, act) : i \in 0 .. 1, ins \in {<<>>, <<Some("A")>>},
                               act \in {None, Some("B")}}
    \cup {Output(i, exp) : i \in 0 .. 1, exp \in OptBlipKinds}

InitBlock ==
    /\ placed0 \in {PlacedBlock(r, b) : r \in 0 .. 3, b \in BlockCatalog}
    /\ placed = placed0
    /\ ops = NoOps
    /\ pc = "block"
    /\ NoMachine /\ NoLevel /\ NoExec /\ NoView /\ NoEditor

RotateCw ==
    /\ pc = "block" /\ ops.cw + ops.ccw < MaxOps /\ ~ops.with_kind
    /\ placed' = rotate_cw_xy(placed)
    /\ ops' = [ops EXCEPT !.cw = @ + 1]
    /\ UNCHANGED <<indices, data, panicked, last, pc, slice, level, placed0, exec, data0, spawned, timer, view, editor>>

RotateCcw ==
    /\ pc = "block" /\ ops.cw + ops.ccw < MaxOps /\ ~ops.with_kind
    /\ placed' = rotate_ccw_xy(placed)
    /\ ops' = [ops EXCEPT !.ccw = @ + 1]
    /\ UNCHANGED <<indices, data, panicked, last, pc, slice, level, placed0, exec, data0, spawned, timer, view, editor>>

WithKind ==
    /\ pc = "block" /\ ops.cw + ops.ccw < MaxOps /\ ~ops.with_kind
    /\ \E k \in BlipKinds : placed' = [placed EXCEPT !.block = with_kind(placed.block, k)]
    /\ ops' = [ops EXCEPT !.with_kind = TRUE]
    /\ UNCHANGED <<indices, data, panicked, last, pc, slice, level, placed0, exec, data0, spawned, timer, view, editor>>

NextBlock == RotateCw \/ RotateCcw \/ WithKind

SpecBlock == InitBlock /\ [][NextBlock]_vars

----------------------------------------------------------------------------
\* Properties

OccupiedCells(m) == {p \in ValidPos(m) : m.indices.cells[p] # None}

\* Every live slot is pointed at by the cell of its position.
ArenaToGrid(m) ==
    \A i \in vec_live(m.data) :
        LET pos == m.data.data[i + 1][1][1]
        IN  grid_is_valid_pos(m.indices, pos) /\ m.indices.cells[pos] = Some(i)

\* Every occupied cell points at a live slot that stores the cell's position.
GridToArena(m) ==
    \A p \in OccupiedCells(m) :
        LET i == m.indices.cells[p][1]
        IN  i \in vec_live(m.data) /\ m.data.data[i + 1][1][1] = p

GridArenaInvariant(m) == ArenaToGrid(m) /\ GridToArena(m)

\* The block at p without its slot number: [panicked, ret].
BlockAt(m, p) ==
    LET g == get_block_at_pos(m, p)
    IN  [panicked |-> g.panicked,
         ret |-> IF g.ret = None THEN None ELSE Some(g.ret[1][2])]

\* The entries <<position, block>> of iter_blocks, in order.
IterEntries(m) == LET it == iter_blocks(m) IN [k \in 1 .. Len(it) |-> it[k][2]]

OptBlockInputs == {None} \cup {Some(b) : b \in BlockInputs}

\* C1: after any sequence of set_block_at_pos / remove_at_pos calls at
\* positions of the grid, starting from new_sandbox, grid and arena agree in
\* both directions, num_blocks is the number of occupied cells, iter_blocks
\* yields every placed block exactly once, and no in-range call panics (the
\* assertion data_pos == p of remove_at_pos holds).
C1_GridArenaAgree ==
    /\ panicked => (last.op = "set_block_at_pos" /\ ~last.valid /\ last.some)
    /\ (pc = "machine" /\ ~panicked) =>
          /\ GridArenaInvariant(cur)
          /\ num_blocks(cur) = Cardinality(OccupiedCells(cur))
          /\ LET it == iter_blocks(cur)
             IN  /\ Len(it) = Cardinality(OccupiedCells(cur))
                 /\ \A p \in OccupiedCells(cur) :
                       Cardinality({k \in 1 .. Len(it) : it[k][2][1] = p}) = 1
                 /\ \A k \in 1 .. Len(it) :
                       get_block_at_pos(cur, it[k][2][1]).ret = Some(<<it[k][1], it[k][2][2]>>)
          /\ \A p \in ValidPos(cur) : ~remove_at_pos(cur, p).panicked

\* A block was removed from slot 0 of a machine that still holds the block
\* of slot 1.
C1_Witness ==
    /\ pc = "machine" /\ ~panicked
    /\ last.op = "remove_at_pos" /\ last.valid /\ last.ret # None
    /\ last.ret[1][1] = 0
    /\ num_blocks(cur) >= 1
    /\ ~is_contiguous(cur)

\* C2 (as claimed): set_block_at_pos(p, Some(block)) at a position outside
\* the grid leaves the arena and every grid cell as they were.
C2_NoPartialMutation ==
    [][(last'.op = "set_block_at_pos" /\ ~last'.valid /\ last'.some)
          => /\ indices' = indices
             /\ num_blocks(Machine(indices', data')) = num_blocks(cur)
             /\ iter_blocks(Machine(indices', data')) = iter_blocks(cur)
             /\ vec_num_free(data') = vec_num_free(data)]_vars

\* C3: gc keeps grid and arena in agreement under the new slot numbers,
\* leaves the machine contiguous, keeps num_blocks and keeps the block at
\* every position.
C3_GcAtomic ==
    (pc = "machine" /\ ~panicked) =>
        LET r == gc(cur)
        IN  /\ ~r.panicked
            /\ GridArenaInvariant(r)
            /\ is_contiguous(r)
            /\ num_blocks(r) = num_blocks(cur)
            /\ \A p \in AllPos(cur) : BlockAt(r, p) = BlockAt(cur, p)

\* gc ran on a machine with holes and left a block in a slot.
C3_Witness ==
    /\ pc = "machine" /\ ~panicked
    /\ last.op = "gc" /\ last.some
    /\ num_blocks(cur) >= 1

\* C4: on a contiguous machine gc changes no slot, no grid cell and not the
\* iteration order; gc after gc changes nothing.
C4_GcIdempotent ==
    (pc = "machine" /\ ~panicked) =>
        LET r == gc(cur)
            rr == gc(Machine(r.indices, r.data))
        IN  /\ is_contiguous(cur) =>
                /\ r.indices = indices
                /\ r.data.data = data.data
                /\ iter_blocks(r) = iter_blocks(cur)
                /\ \A p \in ValidPos(cur) : get_block_at_pos(r, p) = get_block_at_pos(cur, p)
            /\ rr.indices = r.indices /\ rr.data = r.data /\ ~rr.panicked

\* gc ran on a contiguous machine that holds two blocks.
C4_Witness ==
    /\ pc = "machine" /\ ~panicked
    /\ last.op = "gc" /\ ~last.some
    /\ num_blocks(cur) >= 2

\* C5: set_block_at_pos and remove_at_pos at a position other than p leave
\* the slot and the block of p as they were.
C5_SlotStable ==
    (pc = "machine" /\ ~panicked) =>
        \A p \in OccupiedCells(cur) : \A q \in AllPos(cur) \ {p} :
            /\ get_block_at_pos(remove_at_pos(cur, q), p) = get_block_at_pos(cur, p)
            /\ \A block \in OptBlockInputs :
                  get_block_at_pos(set_block_at_pos(cur, q, block), p)
                      = get_block_at_pos(cur, p)

\* A block sits in slot 1 behind a hole, and the last call put a block
\* somewhere else (into the slot freed last).
C5_Witness ==
    /\ pc = "machine" /\ ~panicked
    /\ last.op = "set_block_at_pos" /\ last.some /\ last.valid
    /\ Len(data.data) >= 2 /\ data.data[2] # None
    /\ \E p \in OccupiedCells(cur) : indices.cells[p] = Some(1)
    /\ num_blocks(cur) >= 2

\* C6: set_block_at_pos(p, Some(b)) at a position of the grid leaves b at p,
\* num_blocks one more if p was empty and the same if not, and every other
\* position as it was; set_block_at_pos(p, None) leaves the machine that
\* remove_at_pos(p) leaves.
C6_SetBlock ==
    (pc = "machine" /\ ~panicked) =>
        \A p \in ValidPos(cur) :
            /\ \A b \in BlockInputs :
                  LET r == set_block_at_pos(cur, p, Some(b))
                  IN  /\ ~r.panicked
                      /\ BlockAt(r, p) = [panicked |-> FALSE, ret |-> Some(b)]
                      /\ num_blocks(r) = num_blocks(cur) + (IF Occupied(cur, p) THEN 0 ELSE 1)
                      /\ \A q \in AllPos(cur) \ {p} : BlockAt(r, q) = BlockAt(cur, q)
            /\ LET s == set_block_at_pos(cur, p, None)
                   r == remove_at_pos(cur, p)
               IN  /\ s.indices = r.indices /\ s.data = r.data
                   /\ s.panicked = r.panicked

\* A block was put on an occupied position.
C6_Witness ==
    /\ pc = "machine" /\ ~panicked
    /\ last.op = "set_block_at_pos" /\ last.some /\ last.valid /\ last.occupied
    /\ num_blocks(cur) >= 2

\* C7: remove_at_pos(p) at a position of the grid returns the slot and block
\* get_block_at_pos(p) reported, exactly when p is occupied; then p is empty
\* and num_blocks is one less; on an empty p it returns None and changes
\* nothing.
C7_Remove ==
    (pc = "machine" /\ ~panicked) =>
        \A p \in ValidPos(cur) :
            LET g == get_block_at_pos(cur, p)
                r == remove_at_pos(cur, p)
            IN  /\ ~r.panicked /\ ~g.panicked
                /\ (r.ret # None) <=> Occupied(cur, p)
                /\ r.ret = g.ret
                /\ Occupied(cur, p) =>
                      /\ get_block_at_pos(r, p) = [panicked |-> FALSE, ret |-> None]
                      /\ num_blocks(r) = num_blocks(cur) - 1
                /\ ~Occupied(cur, p) =>
                      /\ r.ret = None
                      /\ r.indices = indices /\ r.data = data

\* remove_at_pos returned the block of slot 1.
C7_Witness ==
    /\ pc = "machine" /\ ~panicked
    /\ last.op = "remove_at_pos" /\ last.valid /\ last.occupied
    /\ last.ret # None /\ last.ret[1][1] = 1

\* C8: outside the grid get_block_at_pos, get_block_at_pos_mut and
\* remove_at_pos return None, set_block_at_pos(p, None) completes, and none
\* of them changes the machine.
C8_OutOfRangeQueries ==
    (pc = "machine" /\ ~panicked) =>
        \A p \in OutsidePos(cur) :
            /\ get_block_at_pos(cur, p) = [panicked |-> FALSE, ret |-> None]
            /\ get_block_at_pos_mut(cur, p) = [panicked |-> FALSE, ret |-> None]
            /\ remove_at_pos(cur, p) = Done(indices, data, None)
            /\ set_block_at_pos(cur, p, None) = Done(indices, data, None)

\* remove_at_pos was called outside the grid of a machine that holds blocks.
C8_Witness ==
    /\ pc = "machine" /\ ~panicked
    /\ last.op = "remove_at_pos" /\ ~last.valid
    /\ num_blocks(cur) >= 1

\* The neighbours of pos: <<dir, slot>> for the occupied cells pos + dir.
NeighborSet(m, pos) ==
    {<<Dir3_ALL[k], m.indices.cells[PointAdd(pos, to_vector(Dir3_ALL[k]))][1]>> :
        k \in {j \in 1 .. 6 :
                  Occupied(m, PointAdd(pos, to_vector(Dir3_ALL[j])))}}

\* C9: iter_neighbors(pos) yields exactly the <<d, i>> with pos + d an
\* occupied cell of the grid and i its slot (block_pos_at_index(i) = pos + d),
\* every direction at most once, whether pos is occupied or not and also on
\* the boundary of the grid.
C9_IterNeighbors ==
    (pc = "machine" /\ ~panicked) =>
        \A pos \in AllPos(cur) :
            LET it == iter_neighbors(cur, pos)
            IN  /\ {it[k] : k \in 1 .. Len(it)} = NeighborSet(cur, pos)
                /\ \A j, k \in 1 .. Len(it) : it[j][1] = it[k][1] => j = k
                /\ \A k \in 1 .. Len(it) :
                      block_pos_at_index(cur, it[k][2])
                          = [panicked |-> FALSE,
                             ret |-> Some(PointAdd(pos, to_vector(it[k][1])))]

\* A cell of the grid has an occupied neighbour along Z, an empty neighbour
\* cell and neighbour cells outside the grid.
C9_Witness ==
    /\ pc = "machine" /\ ~panicked
    /\ \E pos \in ValidPos(cur) :
          LET it == iter_neighbors(cur, pos)
          IN  /\ Len(it) = 1
              /\ it[1][1][1] = "Z"
              /\ \E d \in {Dir3_ALL[k] : k \in 1 .. 6} :
                    ~is_valid_pos(cur, PointAdd(pos, to_vector(d)))
              /\ \E d \in {Dir3_ALL[k] : k \in 1 .. 6} :
                    /\ is_valid_pos(cur, PointAdd(pos, to_vector(d)))
                    /\ ~Occupied(cur, PointAdd(pos, to_vector(d)))

\* C10 (as claimed): new_from_block_data of any slice with positions of the
\* grid builds a machine in which grid and arena agree, entry k (from 0) is
\* in slot k, and the machine is contiguous.
C10_LoadInvariant ==
    pc = "loaded" =>
        /\ ~panicked
        /\ GridArenaInvariant(cur)
        /\ Len(data.data) = Len(slice)
        /\ \A k \in 1 .. Len(slice) : data.data[k] = Some(slice[k])
        /\ is_contiguous(cur)

----------------------------------------------------------------------------
\* The program that runs the tick engine on a machine.

PipeX == PlacedBlock(0, Pipe(X_NEG, X_POS))
PipeY == PlacedBlock(0, Pipe(Y_NEG, Y_POS))

\* The machines the engine is run on, as [size, block_data]: a WindSource
\* blowing into a row of pipes, with a pipe turned across the row at its
\* end; a BlipDuplicator without a kind between two pipes, fed by a third
\* pipe; a BlipDuplicator for kind A between two pipes; and a BlipSpawn in
\* front of a pipe, for several num_spawns.
ExecMachines ==
    {[size |-> <<4, 1, 1>>,
      block_data |-> <<(<<(<<0, 0, 0>>), PlacedBlock(0, WindSource)>>),
                       (<<(<<1, 0, 0>>), PipeX>>),
                       (<<(<<2, 0, 0>>), PlacedBlock(2, Pipe(X_NEG, X_POS))>>),
                       (<<(<<3, 0, 0>>), PlacedBlock(1, Pipe(X_NEG, X_POS))>>)>>],
     [size |-> <<3, 2, 1>>,
      block_data |-> <<(<<(<<1, 0, 0>>), PlacedBlock(0, BlipDuplicator(None, None))>>),
                       (<<(<<0, 0, 0>>), PipeX>>),
                       (<<(<<2, 0, 0>>), PipeX>>),
                       (<<(<<1, 1, 0>>), PipeY>>)>>],
     [size |-> <<3, 1, 1>>,
      block_data |-> <<(<<(<<1, 0, 0>>), PlacedBlock(0, BlipDuplicator(Some("A"), None))>>),
                       (<<(<<0, 0, 0>>), PipeX>>),
                       (<<(<<2, 0, 0>>), PipeX>>)>>]}
    \cup {[size |-> <<2, 1, 1>>,
           block_data |-> <<(<<(<<0, 0, 0>>), PlacedBlock(0, BlipSpawn("A", n, None))>>),
                            (<<(<<1, 0, 0>>), PipeX>>)>>] :
             n \in {None, Some(0), Some(1), Some(2)}}

InitExec ==
    /\ \E em \in ExecMachines :
          LET r == new_from_block_data(em.size, em.block_data)
          IN  /\ indices = r.indices
              /\ data = r.data
              /\ data0 = r.data
              /\ exec = Some(exec_new(r))
    /\ spawned = 0
    /\ panicked = FALSE
    /\ last = NoOp
    /\ slice = <<>>
    /\ pc = "exec"
    /\ NoLevel /\ NoPlaced /\ NoView /\ NoEditor

\* ExecView::update in a frame in which the tick timer triggers: one
\* Exec::update.
Update ==
    /\ pc = "exec" /\ exec[1].cur_tick < MaxTicks
    /\ \E fire \in BOOLEAN : \E r \in update(cur, exec[1], fire) :
          /\ data' = r.data
          /\ exec' = Some(r.exec)
          /\ spawned' = spawned + r.spawned
    /\ last' = [NoOp EXCEPT !.op = "update"]
    /\ UNCHANGED <<indices, panicked, pc, slice, level, placed0, placed, ops, data0,
                   timer, view, editor>>

\* ExecView::on_mouse_input: a press of the left button spawns a blip of
\* kind A at the cell under the mouse, of the right button one of kind B.
OnMouseInput ==
    /\ pc = "exec" /\ Len(exec[1].blips) < MaxBlips
    /\ \E button \in {"Left", "Right"}, mouse_grid_pos \in {None} \cup {Some(p) : p \in ValidPos(cur)} :
          exec' = IF mouse_grid_pos = None THEN exec
                  ELSE Some([exec[1] EXCEPT !.blips =
                           try_spawn_blip(FALSE, IF button = "Left" THEN "A" ELSE "B",
                                          mouse_grid_pos[1], indices, @)])
    /\ last' = [NoOp EXCEPT !.op = "on_mouse_input"]
    /\ UNCHANGED <<indices, data, panicked, pc, slice, level, placed0, placed, ops,
                   data0, spawned, timer, view, editor>>

NextExec == Update \/ OnMouseInput

SpecExec == InitExec /\ [][NextExec]_vars

----------------------------------------------------------------------------
\* The program that drives an ExecView: frames, key presses, mouse presses
\* and direct calls of Exec::try_spawn_blip.

\* The machine under the view: a WindSource blowing into a pipe in a row of
\* three cells, the last of them empty.
ViewMachine ==
    [size |-> <<3, 1, 1>>,
     block_data |-> <<(<<(<<0, 0, 0>>), PlacedBlock(0, WindSource)>>),
                      (<<(<<1, 0, 0>>), PipeX>>)>>]

\* Config::default_ticks_per_sec: a period of 62.5 ms.
TicksPerSec == {16}

\* The frame times tried with a timer of the given period: none, half a
\* period, a nanosecond less than a period, and more than two periods, up
\* to MaxDt.
Dts(period) ==
    {dt \in {0, period \div 2, period - 1, 2 * period + 1} : dt <= MaxDt}

KeyCodes == {"Space", "Escape", "F", "A"}

\* The mouse events tried, as <<state, button>>.
MouseInputs ==
    {<<"Pressed", "Left">>, <<"Pressed", "Right">>, <<"Pressed", "Middle">>,
     <<"Released", "Left">>}

\* What the mouse ray may hit: nothing or a block of the machine.
ClosestBlocks(m) ==
    LET it == iter_blocks(m)
    IN  {None} \cup {Some(it[j][2][1]) : j \in 1 .. Len(it)}

\* What the last call was, with its argument, the number of ticks it ran
\* and the number of times it called Exec::try_spawn_blip.
ViewCall(name, arg, ticks, spawns) ==
    [op |-> name, arg |-> arg, ticks |-> ticks, spawns |-> spawns]

InitView ==
    /\ LET r == new_from_block_data(ViewMachine.size, ViewMachine.block_data)
       IN  /\ indices = r.indices
           /\ data = r.data
           /\ data0 = r.data
           /\ exec = Some(exec_new(r))
    /\ \E hz \in TicksPerSec : view = Some(exec_view_new(Config(hz)))
    /\ spawned = 0
    /\ panicked = FALSE
    /\ last = ViewCall("new", None, 0, 0)
    /\ slice = <<>>
    /\ pc = "view"
    /\ timer = None /\ NoEditor
    /\ NoLevel /\ NoPlaced

\* One method of the view that may run ticks, leading to r. The machine has
\* no BlipSpawn, so a tick is run with none activated.
ViewStep(r, l) ==
    /\ r.exec.cur_tick <= MaxViewTicks
    /\ view' = Some(r.view)
    /\ data' = r.data
    /\ exec' = Some(r.exec)
    /\ spawned' = spawned + r.spawned
    /\ last' = l
    /\ UNCHANGED <<indices, panicked, pc, slice, level, placed0, placed, ops, data0,
                   timer, editor>>

ViewUpdate ==
    /\ pc = "view"
    /\ \E dt \in Dts(view[1].tick_timer.period), closest_block \in ClosestBlocks(cur) :
          \E r \in exec_view_update(view[1], cur, exec[1], dt, closest_block, FALSE) :
             ViewStep(r, ViewCall("update", dt, r.ticks, 0))

ViewKeyPress ==
    /\ pc = "view"
    /\ \E keycode \in KeyCodes :
          \E r \in on_key_press(view[1], cur, exec[1], keycode, FALSE) :
             ViewStep(r, ViewCall("on_key_press", keycode, r.ticks, 0))

ViewMouseInput ==
    /\ pc = "view"
    /\ \E e \in MouseInputs :
          LET r == on_mouse_input(view[1], exec[1], indices, e[1], e[2])
          IN  /\ Len(r.exec.blips) <= MaxBlips
              /\ exec' = Some(r.exec)
              /\ last' = ViewCall("on_mouse_input", e, 0, r.spawns)
    /\ UNCHANGED <<indices, data, panicked, pc, slice, level, placed0, placed, ops,
                   data0, spawned, timer, view, editor>>

\* Exec::try_spawn_blip called on the Exec of the view, for a blip of kind
\* A, with any position of the grid and one beyond it.
ViewTrySpawnBlip ==
    /\ pc = "view"
    /\ \E grid_pos \in ValidPos(cur) \cup {size(cur)} :
          LET bl == try_spawn_blip(TRUE, "A", grid_pos, indices, exec[1].blips)
          IN  /\ Len(bl) <= MaxBlips
              /\ exec' = Some([exec[1] EXCEPT !.blips = bl])
              /\ last' = ViewCall("try_spawn_blip", grid_pos, 0, 1)
    /\ UNCHANGED <<indices, data, panicked, pc, slice, level, placed0, placed, ops,
                   data0, spawned, timer, view, editor>>

NextView == ViewUpdate \/ ViewKeyPress \/ ViewMouseInput \/ ViewTrySpawnBlip

SpecView == InitView /\ [][NextView]_vars

----------------------------------------------------------------------------
\* The program that steps the kind of a block through BlipKind::next.

\* The kind the block started with, after n calls of next.
KindCall(k, n) == [op |-> "next", kind |-> k, n |-> n]

InitKind ==
    /\ placed0 \in {PlacedBlock(r, b) : r \in 0 .. 3,
                                        b \in {c \in BlockCatalog : kind(c) # None}}
    /\ placed = placed0
    /\ ops = NoOps
    /\ last = KindCall(kind(placed0.block)[1], 0)
    /\ pc = "kind"
    /\ indices = grid_new(<<1, 1, 1>>) /\ data = vec_new /\ panicked = FALSE
    /\ slice = <<>>
    /\ NoLevel /\ NoExec /\ NoView /\ NoEditor

KindNext ==
    /\ pc = "kind" /\ last.n < MaxNext
    /\ last' = KindCall(next(last.kind), last.n + 1)
    /\ UNCHANGED <<indices, data, panicked, pc, slice, level, placed0, placed, ops,
                   exec, data0, spawned, timer, view, editor>>

NextKind == KindNext

SpecKind == InitKind /\ [][NextKind]_vars

----------------------------------------------------------------------------
\* The program that drives one Timer.

\* The periods of the timers, in nanoseconds; Timer::new takes any.
TimerPeriods == {0, 1, 2, 3}

\* What the last call on the timer was, what it returned and the timer
\* before it.
TimerCall(name, r, before) == [op |-> name, ret |-> r, before |-> before]

InitTimer ==
    /\ \E period \in TimerPeriods : timer = Some(timer_new(period))
    /\ last = TimerCall("new", FALSE, timer_new(0))
    /\ pc = "timer"
    /\ indices = grid_new(<<1, 1, 1>>) /\ data = vec_new /\ panicked = FALSE
    /\ slice = <<>>
    /\ NoLevel /\ NoPlaced /\ NoExec
    /\ view = None /\ NoEditor

TimerStep(t, l) ==
    /\ timer' = Some(t)
    /\ last' = l
    /\ UNCHANGED <<indices, data, panicked, pc, slice, level, placed0, placed, ops,
                   exec, data0, spawned, view, editor>>

TimerAddAssign ==
    /\ pc = "timer"
    /\ \E other \in 0 .. MaxAdd :
          /\ timer[1].accum + other <= MaxAccum
          /\ TimerStep(add_assign(timer[1], other), TimerCall("add_assign", FALSE, timer[1]))

TimerTrigger ==
    /\ pc = "timer"
    /\ LET r == trigger(timer[1])
       IN  TimerStep(r.timer, TimerCall("trigger", r.ret, timer[1]))

TimerTriggerReset ==
    /\ pc = "timer"
    /\ LET r == trigger_reset(timer[1])
       IN  TimerStep(r.timer, TimerCall("trigger_reset", r.ret, timer[1]))

TimerReset ==
    /\ pc = "timer"
    /\ LET r == reset(timer[1])
       IN  TimerStep(r.timer, TimerCall("reset", r.ret, timer[1]))

NextTimer == TimerAddAssign \/ TimerTrigger \/ TimerTriggerReset \/ TimerReset

SpecTimer == InitTimer /\ [][NextTimer]_vars

----------------------------------------------------------------------------
\* new_from_level

\* The blocks C11 names: <<position, block>> for the Input column at x = 0
\* and the Output column at x = size.x - 1.
InputColumn(lv) ==
    {<<<<0, (lv.size[2] \div 2) - (lv.input_dim \div 2) + i, 0>>,
       PlacedBlock(0, Input(i, <<>>, None))>> : i \in 0 .. lv.input_dim - 1}

OutputColumn(lv) ==
    {<<<<lv.size[1] - 1, (lv.size[2] \div 2) - (lv.output_dim \div 2) + j, 0>>,
       PlacedBlock(0, Output(j, None))>> : j \in 0 .. lv.output_dim - 1}

\* The blocks of a machine as a set of <<position, block>>.
BlockSet(m) == LET it == IterEntries(m) IN {it[k] : k \in 1 .. Len(it)}

DimsFit(lv) == lv.input_dim <= lv.size[2] /\ lv.output_dim <= lv.size[2]

\* C11 (as claimed): new_from_level leaves exactly the Input column and the
\* Output column, input_dim + output_dim blocks, and places every block in
\* the grid when input_dim <= size.y and output_dim <= size.y.
C11_AsClaimed ==
    pc = "levelled" =>
        LET lv == level[1]
        IN  /\ DimsFit(lv) => ~panicked
            /\ ~panicked =>
                  /\ BlockSet(cur) = InputColumn(lv) \cup OutputColumn(lv)
                  /\ num_blocks(cur) = lv.input_dim + lv.output_dim

\* C11: on a level at least two cells wide new_from_level leaves exactly the
\* Input column and the Output column, input_dim + output_dim blocks; on a
\* level one cell wide the Output blocks take the cells of the Input blocks
\* they share; every block is placed in the grid when input_dim <= size.y
\* and output_dim <= size.y.
C11_NewFromLevel ==
    pc = "levelled" =>
        LET lv == level[1]
            out_pos == {e[1] : e \in OutputColumn(lv)}
        IN  /\ DimsFit(lv) => ~panicked
            /\ ~panicked =>
                  /\ GridArenaInvariant(cur)
                  /\ BlockSet(cur) = OutputColumn(lv)
                        \cup {e \in InputColumn(lv) : e[1] \notin out_pos}
                  /\ num_blocks(cur) = Cardinality(BlockSet(cur))
                  /\ lv.size[1] >= 2 =>
                        /\ BlockSet(cur) = InputColumn(lv) \cup OutputColumn(lv)
                        /\ num_blocks(cur) = lv.input_dim + lv.output_dim

\* A level three cells wide and high got two Input blocks and an Output
\* block.
C11_Witness ==
    /\ pc = "levelled" /\ ~panicked
    /\ level[1].size = <<3, 3, 1>>
    /\ level[1].input_dim = 2 /\ level[1].output_dim = 1
    /\ num_blocks(cur) = 3

----------------------------------------------------------------------------
\* Ports of blocks

\* The answers of the four port queries of a placed block / of a block, for
\* the six directions.
Ports(p) ==
    [d \in Dirs |-> <<placed_has_wind_hole(p, d), placed_has_move_hole(p, d),
                      placed_has_wind_hole_in(p, d), placed_has_wind_hole_out(p, d)>>]

BlockPorts(b) ==
    [d \in Dirs |-> <<block_has_wind_hole(b, d), block_has_move_hole(b, d),
                      block_has_wind_hole_in(b, d), block_has_wind_hole_out(b, d)>>]

WindHoles(b) == {d \in Dirs : block_has_wind_hole(b, d)}
WindHolesIn(b) == {d \in Dirs : block_has_wind_hole_in(b, d)}
WindHolesOut(b) == {d \in Dirs : block_has_wind_hole_out(b, d)}
MoveHoles(b) == {d \in Dirs : block_has_move_hole(b, d)}

\* C12: rotate_cw_xy four times brings rotation_xy of a placed block with
\* rotation 0..3 back to where it was, and with it the answers of the four
\* port queries for all six directions.
C12_RotateFourTimes ==
    pc = "block" =>
        LET r4 == rotate_cw_xy(rotate_cw_xy(rotate_cw_xy(rotate_cw_xy(placed))))
        IN  /\ placed.rotation_xy \in 0 .. 3
            /\ r4.rotation_xy = placed.rotation_xy
            /\ Ports(r4) = Ports(placed)
            /\ (ops = [cw |-> 4, ccw |-> 0, with_kind |-> FALSE]) =>
                  /\ placed = placed0
                  /\ Ports(placed) = Ports(placed0)

\* rotate_cw_xy was called four times on a PipeSplitXY that started at
\* rotation 3.
C12_Witness ==
    /\ pc = "block"
    /\ ops = [cw |-> 4, ccw |-> 0, with_kind |-> FALSE]
    /\ placed0.rotation_xy = 3
    /\ placed.block.tag = "PipeSplitXY"

\* C13: a port query of a placed block on the world direction d is the
\* block's answer on d turned back by rotation_xy quarter turns: asking the
\* placed block about rotated_dir_xy(d) gives the block's answer about d,
\* rotate_cw_xy moves every port a quarter turn on, and the answers for
\* Z_POS and Z_NEG are those of the block at every rotation.
C13_RotationTurnsPorts ==
    pc = "block" =>
        /\ \A d \in Dirs :
              /\ Ports(placed)[rotated_dir_xy(placed, d)] = BlockPorts(placed.block)[d]
              /\ Ports(rotate_cw_xy(placed))[rotated_cw_xy(d)] = Ports(placed)[d]
              /\ Ports(rotate_ccw_xy(placed))[rotated_ccw_xy(d)] = Ports(placed)[d]
        /\ \A d \in {Z_POS, Z_NEG} : \A r \in 0 .. 3 :
              Ports(PlacedBlock(r, placed.block))[d] = BlockPorts(placed.block)[d]

\* An Input block was turned to rotation 1: its wind port, X_POS on the
\* block, is at Y_NEG.
C13_Witness ==
    /\ pc = "block" /\ ops.cw >= 1
    /\ placed.block.tag = "Input" /\ placed.rotation_xy = 1
    /\ placed_has_wind_hole(placed, Y_NEG)
    /\ ~placed_has_wind_hole(placed, X_POS)

\* C14 (as claimed): has_wind_hole_in and has_wind_hole_out are
\* has_wind_hole, except: FunnelXY takes wind in only on Y_NEG and lets it
\* out only on Y_POS; WindSource lets wind out on all six faces and takes
\* none in; Output, BlipWindSource (on Y_NEG) and BlipDuplicator let no wind
\* out on some of their wind ports and let it out on the others.
C14_AsClaimed ==
    pc = "block" =>
        LET b == placed.block
        IN  /\ b.tag \notin {"FunnelXY", "WindSource"} => WindHolesIn(b) = WindHoles(b)
            /\ b.tag \notin {"FunnelXY", "Output", "BlipWindSource", "BlipDuplicator"}
                  => WindHolesOut(b) = WindHoles(b)
            /\ b.tag = "FunnelXY" => WindHolesIn(b) = {Y_NEG} /\ WindHolesOut(b) = {Y_POS}
            /\ b.tag = "WindSource" => WindHolesIn(b) = {} /\ WindHolesOut(b) = Dirs
            /\ b.tag = "BlipWindSource" => WindHolesOut(b) = WindHoles(b) \ {Y_NEG}
            /\ b.tag \in {"Output", "BlipWindSource", "BlipDuplicator"} =>
                  /\ WindHolesOut(b) \subseteq WindHoles(b)
                  /\ WindHolesOut(b) # WindHoles(b)
                  /\ WindHolesOut(b) # {}

\* C14: has_wind_hole_in and has_wind_hole_out are has_wind_hole, except:
\* FunnelXY takes wind in only on Y_NEG and lets it out only on Y_POS;
\* WindSource lets wind out on all six faces and takes none in;
\* BlipWindSource lets wind out on all its wind ports but Y_NEG; Output and
\* BlipDuplicator let wind out on no face.
C14_WindInOut ==
    pc = "block" =>
        LET b == placed.block
        IN  /\ b.tag \notin {"FunnelXY", "WindSource"} => WindHolesIn(b) = WindHoles(b)
            /\ b.tag \notin {"FunnelXY", "Output", "BlipWindSource", "BlipDuplicator"}
                  => WindHolesOut(b) = WindHoles(b)
            /\ b.tag = "FunnelXY" => WindHolesIn(b) = {Y_NEG} /\ WindHolesOut(b) = {Y_POS}
            /\ b.tag = "WindSource" => WindHolesIn(b) = {} /\ WindHolesOut(b) = Dirs
            /\ b.tag = "BlipWindSource" =>
                  WindHolesOut(b) = Dirs \ {Y_NEG} /\ WindHoles(b) = Dirs
            /\ b.tag \in {"Output", "BlipDuplicator"} =>
                  WindHolesOut(b) = {} /\ WindHoles(b) # {}

\* A BlipDuplicator that was turned: wind comes in on all its faces and
\* goes out on none.
C14_Witness ==
    /\ pc = "block" /\ ops.cw >= 1
    /\ placed.block.tag = "BlipDuplicator"
    /\ WindHolesIn(placed.block) = Dirs
    /\ \A d \in Dirs : ~placed_has_wind_hole_out(placed, d)

\* C15: has_move_hole is has_wind_hole for Pipe, PipeMergeXY, FunnelXY,
\* WindSource, BlipSpawn, Solid, Input and Output; the move ports of
\* PipeSplitXY are X_POS and the Y face of sign open_move_hole_y; the only
\* move port of BlipWindSource is Y_NEG.
C15_MoveHoles ==
    pc = "block" =>
        LET b == placed.block
        IN  /\ b.tag \in {"Pipe", "PipeMergeXY", "FunnelXY", "WindSource", "BlipSpawn",
                          "Solid", "Input", "Output"} => MoveHoles(b) = WindHoles(b)
            /\ b.tag = "PipeSplitXY" =>
                  MoveHoles(b) = {X_POS, IF b.open_move_hole_y = "Pos" THEN Y_POS ELSE Y_NEG}
            /\ b.tag = "BlipWindSource" => MoveHoles(b) = {Y_NEG}

\* A PipeSplitXY with open_move_hole_y negative, turned: on the block, wind
\* passes Y_POS and blips do not.
C15_Witness ==
    /\ pc = "block" /\ ops.ccw >= 1
    /\ placed.block.tag = "PipeSplitXY" /\ placed.block.open_move_hole_y = "Neg"
    /\ block_has_wind_hole(placed.block, Y_POS)
    /\ ~block_has_move_hole(placed.block, Y_POS)
    /\ block_has_move_hole(placed.block, Y_NEG)

\* A block without the fields the tick engine and with_kind write.
Shape(b) ==
    CASE b.tag \in {"BlipSpawn", "BlipDuplicator", "BlipWindSource"} -> [tag |-> b.tag]
      [] b.tag \in {"Input", "Output"} -> [tag |-> b.tag, index |-> b.index]
      [] OTHER -> b

\* C16: two blocks of a variant that differ only in activated, kind,
\* num_spawns, inputs or expected_next_kind answer the four port queries
\* alike; with_kind(k) keeps the answers, changes only the kind of a
\* BlipSpawn or BlipDuplicator, whose kind() is then Some(k), and returns
\* every other block as it is.
C16_PortsIgnoreState ==
    pc = "block" =>
        LET b == placed.block
        IN  /\ \A b2 \in {c \in BlockCatalog : Shape(c) = Shape(b)} :
                  /\ BlockPorts(b2) = BlockPorts(b)
                  /\ Ports(PlacedBlock(placed.rotation_xy, b2)) = Ports(placed)
            /\ \A k \in BlipKinds :
                  LET w == with_kind(b, k)
                  IN  /\ BlockPorts(w) = BlockPorts(b)
                      /\ b.tag = "BlipSpawn" =>
                            w = [b EXCEPT !.kind = k] /\ kind(w) = Some(k)
                      /\ b.tag = "BlipDuplicator" =>
                            w = [b EXCEPT !.kind = Some(k)] /\ kind(w) = Some(k)
                      /\ b.tag \notin {"BlipSpawn", "BlipDuplicator"} =>
                            w = b /\ kind(w) = None
            /\ ops.with_kind =>
                  /\ Shape(b) = Shape(placed0.block)
                  /\ BlockPorts(b) = BlockPorts(placed0.block)

\* with_kind(B) was called on a BlipDuplicator without a kind.
C16_Witness ==
    /\ pc = "block" /\ ops.with_kind
    /\ placed0.block.tag = "BlipDuplicator" /\ placed0.block.kind = None
    /\ placed.block.kind = Some("B")
    /\ placed.block.activated = placed0.block.activated

----------------------------------------------------------------------------
\* Tick engine

ex == exec[1]

\* The first block of the machine the engine was started on.
FirstBlock0 == data0.data[1][1][2].block

\* Does block n at pos, per the ports alone, get wind from direction d?
PortsGiveWind(m, pos, pb, d) ==
    LET nb == neighbor_at(m, pos, d)
    IN  /\ nb # None
        /\ placed_has_wind_hole_out(nb[1][2], invert(d))
        /\ placed_has_wind_hole_in(pb, d)

\* C17: after a tick a block has wind coming in from direction d exactly
\* when the cell at its position + d holds a block with the outbound wind
\* port -d and the block itself has the inbound wind port d. In the row
\* WindSource, X pipe, X pipe, pipe across: the first pipe shows wind in
\* from X_NEG and out to X_POS, the second pipe has wind in from X_NEG, the
\* WindSource and the pipe across have none.
C17_WindOnePass ==
    (pc = "exec" /\ ex.cur_tick >= 1) =>
        LET it == iter_blocks(cur)
        IN  /\ \A k \in 1 .. Len(it) : \A d \in Dirs :
                  wind_in(ex.wind_state[it[k][1] + 1], d)
                      <=> PortsGiveWind(cur, it[k][2][1], it[k][2][2], d)
            /\ FirstBlock0.tag = "WindSource" =>
                  /\ <<X_NEG, Some(X_POS)>>
                        \in wind_dir_pairs(cur, ex.wind_state, 1, <<1, 0, 0>>)
                  /\ wind_in(ex.wind_state[3], X_NEG)
                  /\ ex.wind_state[1] = {} /\ ex.wind_state[4] = {}
                  /\ wind_dir_pairs(cur, ex.wind_state, 3, <<3, 0, 0>>) = {}

\* One tick ran on the row behind the WindSource.
C17_Witness ==
    /\ pc = "exec" /\ ex.cur_tick = 1
    /\ FirstBlock0.tag = "WindSource"
    /\ wind_in(ex.wind_state[2], X_NEG)
    /\ ex.old_wind_state[2] = {}

\* Wind states and blips other than those of the engine.
OtherWindStates(m) ==
    {[i \in 1 .. Len(m.data.data) |-> IF i \in on THEN ws ELSE {}] :
        on \in {{}, {1}, {2, 3}, 1 .. Len(m.data.data)},
        ws \in {Dirs, {X_NEG}, {X_POS, Y_NEG}}}

OtherBlips == {<<>>, <<Blip(<<1, 0, 0>>, None, "A")>>,
               <<Blip(<<0, 0, 0>>, Some(<<1, 0, 0>>), "B"), Blip(<<1, 0, 0>>, None, "C")>>}

SentFrom(bl, pos) == {k \in 1 .. Len(bl) : bl[k].old_pos = Some(pos) /\ bl[k].pos # pos}

\* C19 (as claimed): a tick on a BlipDuplicator without a kind that a blip
\* of kind B has activated creates two blips of kind B next to it and no
\* other blip.
C19_DuplicatorTwo ==
    [][(/\ pc = "exec"
        /\ FirstBlock0.tag = "BlipDuplicator" /\ FirstBlock0.kind = None
        /\ data.data[1][1][2].block.activated = Some("B")
        /\ ex.blips = <<>>
        /\ exec'[1].cur_tick = ex.cur_tick + 1)
          => /\ Cardinality(SentFrom(exec'[1].blips, <<1, 0, 0>>)) = 2
             /\ Len(exec'[1].blips) = 2
             /\ \A k \in 1 .. Len(exec'[1].blips) : exec'[1].blips[k].kind = "B"]_vars

\* C20: a BlipSpawn with num_spawns = Some(n) has created at most n blips,
\* whatever ticks and activations there were: each blip it creates lowers
\* its counter by one, and at Some(0) an activation creates none. With
\* num_spawns = None every activation creates a blip.
C20_SpawnLimit ==
    (pc = "exec" /\ FirstBlock0.tag = "BlipSpawn") =>
        LET b == data.data[1][1][2].block
            made == {r.spawned : r \in update(cur, ex, TRUE)}
        IN  /\ {r.spawned : r \in update(cur, ex, FALSE)} = {0}
            /\ FirstBlock0.num_spawns = None =>
                  b.num_spawns = None /\ made = {1}
            /\ FirstBlock0.num_spawns # None =>
                  /\ spawned <= FirstBlock0.num_spawns[1]
                  /\ b.num_spawns = Some(FirstBlock0.num_spawns[1] - spawned)
                  /\ made = {IF b.num_spawns = Some(0) THEN 0 ELSE 1}
            /\ FirstBlock0.num_spawns = Some(0) => spawned = 0 /\ made = {0}

\* A BlipSpawn with num_spawns = Some(2) has created two blips and was
\* activated once more.
C20_Witness ==
    /\ pc = "exec" /\ FirstBlock0.tag = "BlipSpawn"
    /\ FirstBlock0.num_spawns = Some(2)
    /\ spawned = 2
    /\ data.data[1][1][2].block.num_spawns = Some(0)
    /\ ex.cur_tick >= 3

----------------------------------------------------------------------------
\* Timer

\* trigger called until it returns false: the number of times it returned
\* true and the timer it leaves (for a positive period).
RECURSIVE trigger_all(_)
trigger_all(t) ==
    LET r == trigger(t)
    IN  IF ~r.ret THEN [n |-> 0, timer |-> t]
        ELSE LET more == trigger_all(r.timer)
             IN  [n |-> more.n + 1, timer |-> more.timer]

\* C23: trigger returns true exactly when accum >= period and then takes
\* one period off accum; otherwise it returns false and leaves accum. With
\* a positive period, trigger called again and again on a timer with accum
\* = t returns true t div period times, then false, and leaves accum = t mod
\* period.
C23_Trigger ==
    pc = "timer" =>
        LET t == timer[1]
        IN  /\ last.op = "trigger" =>
                  /\ last.ret <=> last.before.accum >= t.period
                  /\ last.ret => t.accum = last.before.accum - t.period
                  /\ ~last.ret => t.accum = last.before.accum
                  /\ t.period = last.before.period
            /\ t.period > 0 =>
                  LET r == trigger_all(t)
                  IN  /\ r.n = t.accum \div t.period
                      /\ r.timer.accum = t.accum % t.period
                      /\ ~trigger(r.timer).ret

\* trigger returned true on a timer that held more than two periods and
\* left a remainder.
C23_Witness ==
    /\ pc = "timer" /\ last.op = "trigger" /\ last.ret
    /\ timer[1].period = 2 /\ last.before.accum = 5
    /\ timer[1].accum = 3

\* C24: trigger_reset returns true exactly when accum >= period and then
\* sets accum to zero, whatever was beyond the period; otherwise it returns
\* false and leaves accum. reset sets accum to zero and returns whether
\* accum >= period held.
C24_TriggerReset ==
    pc = "timer" =>
        LET t == timer[1]
        IN  /\ last.op = "trigger_reset" =>
                  /\ last.ret <=> last.before.accum >= t.period
                  /\ last.ret => t.accum = 0
                  /\ ~last.ret => t.accum = last.before.accum
                  /\ t.period = last.before.period
            /\ last.op = "reset" =>
                  /\ last.ret <=> last.before.accum >= t.period
                  /\ t.accum = 0
                  /\ t.period = last.before.period

\* trigger_reset returned true on a timer that held more than two periods.
C24_Witness ==
    /\ pc = "timer" /\ last.op = "trigger_reset" /\ last.ret
    /\ timer[1].period = 2 /\ last.before.accum = 5
    /\ timer[1].accum = 0

----------------------------------------------------------------------------
\* BlipKind::next

\* next applied n times.
RECURSIVE next_times(_, _)
next_times(k, n) == IF n = 0 THEN k ELSE next(next_times(k, n - 1))

\* C25: next is the cycle A -> B -> C -> A: it never returns its argument,
\* no two kinds have the same next kind, every kind is the next of some kind,
\* and three calls give the kind they started from.
C25_NextCycle ==
    pc = "kind" =>
        LET k0 == kind(placed0.block)[1]
            k == last.kind
        IN  /\ k \in BlipKinds
            /\ next(k) \in BlipKinds /\ next(k) # k
            /\ \A j \in BlipKinds \ {k} : next(j) # next(k)
            /\ \E j \in BlipKinds : next(j) = k
            /\ k = "A" => next(k) = "B"
            /\ k = "B" => next(k) = "C"
            /\ k = "C" => next(k) = "A"
            /\ last.n = 3 => k = k0
            /\ last.n \in {1, 2} => k # k0
            /\ next_times(k, 3) = k

\* A BlipSpawn of kind C has been through three calls of next.
C25_Witness ==
    /\ pc = "kind" /\ last.n = 3
    /\ placed0.block.tag = "BlipSpawn" /\ kind(placed0.block) = Some("C")
    /\ last.kind = "C"

----------------------------------------------------------------------------
\* ExecView

vw == view[1]

\* Whether Exec::try_spawn_blip at pos finds no block, or a blip there.
NoSpawnAt(pos) ==
    \/ ~Occupied(cur, pos)
    \/ \E j \in 1 .. Len(ex.blips) : ex.blips[j].pos = pos

C26_OneTickPerUpdate ==
    [][(pc = "view" /\ last'.op = "update") =>
          LET t == vw.tick_timer
              dt == last'.arg
          IN  /\ last'.ticks \in {0, 1}
              /\ ex'.cur_tick = ex.cur_tick + last'.ticks
              /\ vw.status = "Playing" =>
                    /\ last'.ticks = 1 <=> t.accum + dt >= t.period
                    /\ t.accum + dt >= t.period => vw'.tick_timer.accum = 0
                    /\ t.accum + dt < t.period =>
                          vw'.tick_timer.accum = t.accum + dt /\ exec' = exec
                    /\ vw'.tick_timer.period = t.period]_vars

\* An update with a dt of more than two periods ran one tick and left
\* nothing in the timer.
C26_Witness ==
    /\ pc = "view" /\ last.op = "update" /\ last.ticks = 1
    /\ last.arg = 2 * vw.tick_timer.period + 1
    /\ vw.tick_timer.accum = 0 /\ ex.cur_tick = 1

\* C27: a new ExecView is Playing; the pause key turns Playing into Paused
\* and Paused into Playing; the stop key turns every status into Stopped;
\* and no operation leaves Stopped.
C27_StatusMachine ==
    /\ (pc = "view" /\ last.op = "new") => vw.status = "Playing"
    /\ [][pc = "view" =>
             /\ (last'.op = "on_key_press" /\ last'.arg = vw.config.pause_resume_key) =>
                   /\ vw.status = "Playing" => vw'.status = "Paused"
                   /\ vw.status = "Paused" => vw'.status = "Playing"
             /\ (last'.op = "on_key_press" /\ last'.arg = vw.config.stop_key) =>
                   vw'.status = "Stopped"
             /\ vw.status = "Stopped" => vw'.status = "Stopped"
             /\ vw'.status \in {"Playing", "Paused", "Stopped"}]_vars

\* The pause key was pressed in a stopped view.
C27_Witness ==
    /\ pc = "view" /\ last.op = "on_key_press" /\ last.arg = "Space"
    /\ vw.status = "Stopped"

\* C28: an update of a paused or stopped view runs no tick and adds no
\* time: the Exec (tick counter, wind states, blips), the blocks and the
\* timer are as before, and so is cur_tick_time().
C28_PausedUpdate ==
    [][(pc = "view" /\ last'.op = "update" /\ vw.status \in {"Paused", "Stopped"}) =>
          /\ last'.ticks = 0
          /\ exec' = exec /\ data' = data
          /\ vw'.tick_timer = vw.tick_timer
          /\ vw'.status = vw.status
          /\ cur_tick_time(vw', ex') = cur_tick_time(vw, ex)]_vars

\* A paused view with half a period in its timer, wind in the pipe and a
\* blip was updated with a dt of more than two periods.
C28_Witness ==
    /\ pc = "view" /\ last.op = "update" /\ vw.status = "Paused"
    /\ last.arg = 2 * vw.tick_timer.period + 1
    /\ vw.tick_timer.accum = vw.tick_timer.period \div 2
    /\ ex.cur_tick = 1 /\ ex.wind_state[2] # {} /\ ex.blips # <<>>

\* C29: the frame key runs one tick and sets the accumulated time to zero,
\* in every status, and leaves the status.
C29_FrameKey ==
    [][(pc = "view" /\ last'.op = "on_key_press" /\ last'.arg = vw.config.frame_key) =>
          /\ last'.ticks = 1
          /\ ex'.cur_tick = ex.cur_tick + 1
          /\ \E u \in update(cur, ex, FALSE) : exec' = Some(u.exec) /\ data' = u.data
          /\ vw'.tick_timer = [vw.tick_timer EXCEPT !.accum = 0]
          /\ vw'.status = vw.status]_vars

\* The frame key was pressed in a stopped view and ran the first tick.
C29_Witness ==
    /\ pc = "view" /\ last.op = "on_key_press" /\ last.arg = "F"
    /\ vw.status = "Stopped" /\ ex.cur_tick = 1 /\ last.ticks = 1
    /\ vw.tick_timer.accum = 0

\* No operation lowers cur_tick_time(), lowers cur_tick, or takes time off
\* the timer without running a tick.
NeverBack ==
    /\ \/ vw'.tick_timer = vw.tick_timer /\ ex'.cur_tick = ex.cur_tick
       \/ f32_le(cur_tick_time(vw, ex), cur_tick_time(vw', ex'))
    /\ ex'.cur_tick >= ex.cur_tick
    /\ vw'.tick_timer.accum < vw.tick_timer.accum => ex'.cur_tick > ex.cur_tick

----------------------------------------------------------------------------
(***************************************************************************)
(* The editor's actions (edit/editor/action.rs).  An Editor is the record  *)
(* of the fields the actions read and write: mode, clipboard, undo, redo,  *)
(* current_layer, mouse_grid_pos and mouse_block_pos; its machine is the   *)
(* Machine of indices and data.  An action is an operator from an editor   *)
(* and its machine to the pair it leaves, with panicked = TRUE when an     *)
(* assertion of the action fails.                                          *)
(***************************************************************************)
\* Largest size.z of the machine the layer actions run on.
MaxLayers == 3

Editor(mode, clipboard, undo, redo, current_layer, mouse_grid_pos, mouse_block_pos) ==
    [mode |-> mode, clipboard |-> clipboard, undo |-> undo, redo |-> redo,
     current_layer |-> current_layer, mouse_grid_pos |-> mouse_grid_pos,
     mouse_block_pos |-> mouse_block_pos]

EdDone(ed, m) == [editor |-> ed, machine |-> m, panicked |-> FALSE]
EdPanic(ed, m) == [editor |-> ed, machine |-> m, panicked |-> TRUE]

MaxOf(a, b) == IF a >= b THEN a ELSE b

PointNeg(p) == <<-p[1], -p[2], -p[3]>>
PointSub(p, q) == <<p[1] - q[1], p[2] - q[2], p[3] - q[3]>>

\* Machine::is_valid_layer
is_valid_layer(m, layer) == layer >= 0 /\ layer < size(m)[3]

\* The modes of the editor.  Select holds the selection; DragAndDrop the
\* selection being dragged and its piece; PipeTool the last position and
\* the rotation of the next pipe; PlacePiece the piece and the mode it was
\* entered from; RectSelect stands for the modes that match none of the
\* named arms of the actions.
new_selection(selection) == [tag |-> "Select", selection |-> selection]
new_select == new_selection(<<>>)
PipeTool(last_pos, rotation_xy) ==
    [tag |-> "PipeTool", last_pos |-> last_pos, rotation_xy |-> rotation_xy]
new_pipe_tool == PipeTool(None, 0)
DragAndDrop(selection, piece) ==
    [tag |-> "DragAndDrop", selection |-> selection, piece |-> piece]
PlacePiece(piece, outer) == [tag |-> "PlacePiece", piece |-> piece, outer |-> outer]
RectSelect == [tag |-> "RectSelect"]

\* Mode::switch_to_place_piece: a mode that places a piece already keeps
\* its outer mode, any other mode becomes the outer mode.
switch_to_place_piece(mode, piece, is_paste) ==
    IF mode.tag = "PlacePiece" THEN PlacePiece(piece, mode.outer)
    ELSE PlacePiece(piece, mode)

\* A Piece is the sequence of its (position, placed block) pairs.
Piece(bs) == [blocks |-> bs]

RECURSIVE new_from_selection_from(_, _, _)
new_from_selection_from(m, selection, k) ==
    IF k > Len(selection) THEN <<>>
    ELSE LET b == get_block_at_pos(m, selection[k]).ret
             rest == new_from_selection_from(m, selection, k + 1)
         IN  IF b = None THEN rest ELSE <<<<selection[k], b[1][2]>>>> \o rest

\* Piece::new_from_selection: the blocks of the machine at the selected
\* positions, in the order of the selection.
new_from_selection(m, selection) == Piece(new_from_selection_from(m, selection, 1))

\* The smallest and the largest coordinate c of the blocks of a piece.
coord_min(bs, c) == CHOOSE z \in {bs[k][1][c] : k \in 1 .. Len(bs)} :
                        \A k \in 1 .. Len(bs) : z <= bs[k][1][c]
coord_max(bs, c) == CHOOSE z \in {bs[k][1][c] : k \in 1 .. Len(bs)} :
                        \A k \in 1 .. Len(bs) : z >= bs[k][1][c]

\* Piece::min_pos and Piece::extent: the corner of the bounding box and its
\* size in blocks; an empty piece has the origin and no extent.
min_pos(piece) ==
    IF piece.blocks = <<>> THEN <<0, 0, 0>>
    ELSE <<coord_min(piece.blocks, 1), coord_min(piece.blocks, 2), coord_min(piece.blocks, 3)>>

extent(piece) ==
    IF piece.blocks = <<>> THEN <<0, 0, 0>>
    ELSE <<coord_max(piece.blocks, 1) - coord_min(piece.blocks, 1) + 1,
           coord_max(piece.blocks, 2) - coord_min(piece.blocks, 2) + 1,
           coord_max(piece.blocks, 3) - coord_min(piece.blocks, 3) + 1>>

\* Piece::shift
shift(piece, delta) ==
    Piece([k \in 1 .. Len(piece.blocks) |->
              <<PointAdd(piece.blocks[k][1], delta), piece.blocks[k][2]>>])

\* too_high of action_paste: by how many layers the centred piece, put at
\* the height of the mouse, sticks out of the top of the machine.
paste_piece(clipboard) ==
    LET e == <<extent(clipboard)[1], extent(clipboard)[2], 0>>
        half == <<e[1] \div 2, e[2] \div 2, e[3] \div 2>>
        p1 == shift(clipboard, PointSub(PointNeg(min_pos(clipboard)), half))
        p2 == IF e[1] > 0 /\ e[1] % 2 = 0 THEN shift(p1, <<1, 0, 0>>) ELSE p1
    IN  IF e[2] > 0 /\ e[2] % 2 = 0 THEN shift(p2, <<0, 1, 0>>) ELSE p2

paste_too_high(ed, m) ==
    LET piece == paste_piece(ed.clipboard[1])
        max_z == (IF piece.blocks = <<>> THEN 0 ELSE coord_max(piece.blocks, 3))
                 + (IF ed.mouse_grid_pos = None THEN 0 ELSE ed.mouse_grid_pos[1][3])
    IN  MaxOf(max_z - size(m)[3] + 1, 0)

\* Editor::action_paste
action_paste(ed, m) ==
    IF ed.clipboard = None THEN EdDone(ed, m)
    ELSE LET too_high == paste_too_high(ed, m)
             layer == ed.current_layer - MaxOf(too_high, ed.current_layer)
             moved == [ed EXCEPT !.current_layer = layer]
         IN  IF ~is_valid_layer(m, layer) THEN EdPanic(moved, m)
             ELSE EdDone([moved EXCEPT !.mode = switch_to_place_piece(
                                          ed.mode, paste_piece(ed.clipboard[1]), TRUE)], m)

action_layer_up_unguarded(ed, m) ==
    EdDone([ed EXCEPT !.current_layer = ed.current_layer + 1], m)

\* Editor::action_layer_up
action_layer_up(ed, m) ==
    IF is_valid_layer(m, ed.current_layer + 1)
    THEN EdDone([ed EXCEPT !.current_layer = ed.current_layer + 1], m)
    ELSE EdDone(ed, m)

\* Editor::action_layer_down
action_layer_down(ed, m) ==
    IF is_valid_layer(m, ed.current_layer - 1)
    THEN EdDone([ed EXCEPT !.current_layer = ed.current_layer - 1], m)
    ELSE EdDone(ed, m)

----------------------------------------------------------------------------
(***************************************************************************)
(* Edits and the actions that run them.  An Edit is SetBlocks over a       *)
(* sequence of (position, Option<PlacedBlock>) pairs with distinct         *)
(* positions, or RotateCWXY / RotateCCWXY over a sequence of positions.    *)
(* run_edit applies an edit to the machine and returns the edit that       *)
(* reverts it; run_and_track_edit runs an edit, pushes the reverting edit  *)
(* onto undo, clears redo and keeps of a selection the positions that      *)
(* still hold a block.                                                     *)
(***************************************************************************)
\* Longest undo history the actions build up.
MaxHistory == 2

SetBlocks(bs) == [tag |-> "SetBlocks", blocks |-> bs]
RotateCWXY(ps) == [tag |-> "RotateCWXY", points |-> ps]
RotateCCWXY(ps) == [tag |-> "RotateCCWXY", points |-> ps]

\* The block layout of a machine: the placed block, or None, of every
\* position of its grid.
layout(m) ==
    [p \in ValidPos(m) |->
        LET b == get_block_at_pos(m, p).ret IN IF b = None THEN None ELSE Some(b[1][2])]

\* SetBlocks from entry k on: r is the machine so far, old the blocks the
\* entries before k replaced.
RECURSIVE run_set_blocks(_, _, _, _)
run_set_blocks(r, bs, k, old) ==
    IF k > Len(bs) \/ r.panicked THEN [machine |-> Machine(r.indices, r.data),
                                      panicked |-> r.panicked,
                                      ret |-> SetBlocks(old)]
    ELSE LET m == Machine(r.indices, r.data)
         IN  run_set_blocks(set_block_at_pos(m, bs[k][1], bs[k][2]), bs, k + 1,
                            Append(old, <<bs[k][1], layout(m)[bs[k][1]]>>))

\* A quarter turn of the blocks at the positions ps, from entry k on.
RECURSIVE run_rotate(_, _, _, _)
run_rotate(m, ps, k, cw) ==
    IF k > Len(ps) THEN m
    ELSE LET b == get_block_at_pos_mut(m, ps[k]).ret
         IN  IF b = None THEN run_rotate(m, ps, k + 1, cw)
             ELSE LET turned == IF cw THEN rotate_cw_xy(b[1][2]) ELSE rotate_ccw_xy(b[1][2])
                  IN  run_rotate(Machine(m.indices,
                                         [m.data EXCEPT !.data[b[1][1] + 1][1][2] = turned]),
                                 ps, k + 1, cw)

\* Editor::run_edit: [machine, panicked, ret], ret the reverting edit.
run_edit(m, edit) ==
    IF edit.tag = "SetBlocks"
    THEN run_set_blocks(Done(m.indices, m.data, None), edit.blocks, 1, <<>>)
    ELSE IF edit.tag = "RotateCWXY"
    THEN [machine |-> run_rotate(m, edit.points, 1, TRUE), panicked |-> FALSE,
          ret |-> RotateCCWXY(edit.points)]
    ELSE [machine |-> run_rotate(m, edit.points, 1, FALSE), panicked |-> FALSE,
          ret |-> RotateCWXY(edit.points)]

Result(ed, r) == [editor |-> ed, machine |-> r.machine, panicked |-> r.panicked]

\* The entries of a sequence of positions that hold a block of m.
RECURSIVE still_there(_, _)
still_there(m, ps) ==
    IF ps = <<>> THEN <<>>
    ELSE IF layout(m)[Head(ps)] = None THEN still_there(m, Tail(ps))
    ELSE <<Head(ps)>> \o still_there(m, Tail(ps))

\* Editor::run_and_track_edit
run_and_track_edit(ed, m, edit) ==
    LET r == run_edit(m, edit)
        mode == IF ed.mode.tag = "Select"
                THEN new_selection(still_there(r.machine, ed.mode.selection))
                ELSE ed.mode
    IN  Result([ed EXCEPT !.undo = Append(ed.undo, r.ret), !.redo = <<>>,
                           !.mode = mode], r)

Front(s) == SubSeq(s, 1, Len(s) - 1)
Back(s) == s[Len(s)]

\* action_undo that takes the oldest entry of the history.
action_undo_oldest(ed, m) ==
    IF ed.undo = <<>> THEN EdDone(ed, m)
    ELSE LET r == run_edit(m, Head(ed.undo))
         IN  Result([ed EXCEPT !.undo = Tail(ed.undo), !.redo = Append(ed.redo, r.ret)], r)

\* Editor::action_undo
action_undo(ed, m) ==
    IF ed.undo = <<>> THEN EdDone(ed, m)
    ELSE LET r == run_edit(m, Back(ed.undo))
         IN  Result([ed EXCEPT !.undo = Front(ed.undo), !.redo = Append(ed.redo, r.ret)], r)

\* Editor::action_redo
action_redo(ed, m) ==
    IF ed.redo = <<>> THEN EdDone(ed, m)
    ELSE LET r == run_edit(m, Back(ed.redo))
         IN  Result([ed EXCEPT !.redo = Front(ed.redo), !.undo = Append(ed.undo, r.ret)], r)

\* The edit of action_cut and action_delete: None at every position of the
\* selection.
set_none(selection) == SetBlocks([k \in 1 .. Len(selection) |-> <<selection[k], None>>])

\* action_cut that takes the piece after the blocks are gone.
action_cut_late(ed, m) ==
    IF ed.mode.tag = "Select"
    THEN LET r == run_and_track_edit(ed, m, set_none(ed.mode.selection))
         IN  [r EXCEPT !.editor.clipboard =
                           Some(new_from_selection(r.machine, ed.mode.selection))]
    ELSE EdDone(ed, m)

\* Editor::action_cut
action_cut(ed, m) ==
    IF ed.mode.tag = "Select"
    THEN run_and_track_edit(
             [ed EXCEPT !.clipboard = Some(new_from_selection(m, ed.mode.selection))],
             m, set_none(ed.mode.selection))
    ELSE EdDone(ed, m)

\* Mode::selection
selection_of(mode) ==
    IF mode.tag \in {"Select", "DragAndDrop"} THEN Some(mode.selection) ELSE None

\* Editor::action_copy
action_copy(ed, m) ==
    IF selection_of(ed.mode) # None
    THEN EdDone([ed EXCEPT !.clipboard =
                               Some(new_from_selection(m, selection_of(ed.mode)[1]))], m)
    ELSE EdDone(ed, m)

\* Editor::action_delete
action_delete(ed, m) ==
    IF ed.mode.tag = "Select"
    THEN run_and_track_edit(ed, m, set_none(ed.mode.selection))
    ELSE EdDone(ed, m)

\* action_cancel that leaves a pipe tool at once.
action_cancel_pipe(ed, m) ==
    EdDone([ed EXCEPT !.mode =
               IF ed.mode.tag = "DragAndDrop" THEN new_selection(ed.mode.selection)
               ELSE IF ed.mode.tag = "PlacePiece" THEN ed.mode.outer
               ELSE new_select], m)

\* Editor::action_cancel
action_cancel(ed, m) ==
    EdDone([ed EXCEPT !.mode =
               IF ed.mode.tag = "DragAndDrop" THEN new_selection(ed.mode.selection)
               ELSE IF ed.mode.tag = "PipeTool" /\ ed.mode.last_pos # None
                    THEN new_pipe_tool
               ELSE IF ed.mode.tag = "PlacePiece" THEN ed.mode.outer
               ELSE new_select], m)

\* Piece::rotate_cw_xy and Piece::rotate_ccw_xy: a quarter turn of the
\* positions about the z axis and of every block.
piece_rotate_cw_xy(piece) ==
    Piece([k \in 1 .. Len(piece.blocks) |->
              <<<<piece.blocks[k][1][2], -piece.blocks[k][1][1], piece.blocks[k][1][3]>>,
                rotate_cw_xy(piece.blocks[k][2])>>])

piece_rotate_ccw_xy(piece) ==
    Piece([k \in 1 .. Len(piece.blocks) |->
              <<<<-piece.blocks[k][1][2], piece.blocks[k][1][1], piece.blocks[k][1][3]>>,
                rotate_ccw_xy(piece.blocks[k][2])>>])

\* action_rotate_cw whose pipe tool wraps one step late.
action_rotate_cw_late(ed, m) ==
    IF ed.mode.tag \in {"PlacePiece", "DragAndDrop"}
    THEN EdDone([ed EXCEPT !.mode.piece = piece_rotate_cw_xy(ed.mode.piece)], m)
    ELSE IF ed.mode.tag = "Select"
    THEN IF ed.mouse_block_pos # None
         THEN run_and_track_edit(ed, m, RotateCWXY(<<ed.mouse_block_pos[1]>>))
         ELSE EdDone(ed, m)
    ELSE IF ed.mode.tag = "PipeTool"
    THEN LET r == ed.mode.rotation_xy + 1
         IN  EdDone([ed EXCEPT !.mode.rotation_xy = IF r = 5 THEN 0 ELSE r], m)
    ELSE EdDone(ed, m)

\* Editor::action_rotate_cw
action_rotate_cw(ed, m) ==
    IF ed.mode.tag \in {"PlacePiece", "DragAndDrop"}
    THEN EdDone([ed EXCEPT !.mode.piece = piece_rotate_cw_xy(ed.mode.piece)], m)
    ELSE IF ed.mode.tag = "Select"
    THEN IF ed.mouse_block_pos # None
         THEN run_and_track_edit(ed, m, RotateCWXY(<<ed.mouse_block_pos[1]>>))
         ELSE EdDone(ed, m)
    ELSE IF ed.mode.tag = "PipeTool"
    THEN LET r == ed.mode.rotation_xy + 1
         IN  EdDone([ed EXCEPT !.mode.rotation_xy = IF r = 4 THEN 0 ELSE r], m)
    ELSE EdDone(ed, m)

\* Editor::action_rotate_ccw
action_rotate_ccw(ed, m) ==
    IF ed.mode.tag \in {"PlacePiece", "DragAndDrop"}
    THEN EdDone([ed EXCEPT !.mode.piece = piece_rotate_ccw_xy(ed.mode.piece)], m)
    ELSE IF ed.mode.tag = "Select"
    THEN IF ed.mouse_block_pos # None
         THEN run_and_track_edit(ed, m, RotateCCWXY(<<ed.mouse_block_pos[1]>>))
         ELSE EdDone(ed, m)
    ELSE IF ed.mode.tag = "PipeTool"
    THEN EdDone([ed EXCEPT !.mode.rotation_xy =
                    IF ed.mode.rotation_xy = 0 THEN 3 ELSE ed.mode.rotation_xy - 1], m)
    ELSE EdDone(ed, m)

----------------------------------------------------------------------------
\* SavedMachine (machine/mod.rs): the size, the (position, placed block)
\* pairs and the level of a machine; lvl is the level of the machine m.
SavedMachine(sz, block_data, lvl) == [size |-> sz, block_data |-> block_data, level |-> lvl]

\* from_machine that writes the blocks out last slot first.
from_machine_reversed(m, lvl) ==
    LET it == vec_iter(m.data)
    IN  SavedMachine(size(m), [k \in 1 .. Len(it) |-> it[Len(it) + 1 - k][2]], lvl)

\* SavedMachine::from_machine: the entries of the live slots, by ascending
\* slot.
from_machine(m, lvl) ==
    LET it == vec_iter(m.data)
    IN  SavedMachine(size(m), [k \in 1 .. Len(it) |-> it[k][2]], lvl)

\* SavedMachine::into_machine: the result of new_from_block_data, with the
\* level it was given.
into_machine(saved) ==
    [machine |-> new_from_block_data(saved.size, saved.block_data), level |-> saved.level]

----------------------------------------------------------------------------
(***************************************************************************)
(* The layer program: an editor over a machine of one column of Solid      *)
(* blocks, size.z layers high, with the clipboard empty or cut out of the  *)
(* column, the current layer any layer of the machine and the mouse either *)
(* off the grid or on the current layer; then action_paste,                *)
(* action_layer_up and action_layer_down in any order.                     *)
(***************************************************************************)
ed == editor[1]

\* What the last action was, and the editor and the machine it was called on.
EditorCall(name, before, m) == [op |-> name, before |-> before, machine |-> m]

Column(n) == [k \in 1 .. n |-> <<<<0, 0, k - 1>>, Solid0>>]

\* The positions lo .. hi of the column, from the bottom up.
ColumnSelection(lo, hi) == [k \in 1 .. hi - lo + 1 |-> <<0, 0, lo + k - 1>>]

ColumnSelections(n) ==
    {<<>>} \cup {ColumnSelection(lo, hi) : lo \in 0 .. n - 1, hi \in 0 .. n - 1}

InitLayer ==
    /\ \E n \in 1 .. MaxLayers :
          LET m == new_from_block_data(<<1, 1, n>>, Column(n))
          IN  /\ indices = m.indices
              /\ data = m.data
              /\ \E layer \in 0 .. n - 1 :
                    editor \in {Some(Editor(new_select, clipboard, <<>>, <<>>, layer,
                                            mouse_grid_pos, None)) :
                                   clipboard \in {None} \cup
                                       {Some(new_from_selection(m, selection)) :
                                           selection \in ColumnSelections(n)},
                                   mouse_grid_pos \in {None, Some(<<0, 0, layer>>)}}
    /\ panicked = FALSE
    /\ last = NoOp
    /\ pc = "layer"
    /\ slice = <<>>
    /\ NoLevel /\ NoPlaced /\ NoExec /\ NoView

EditorStep(r, l) ==
    /\ editor' = Some(r.editor)
    /\ indices' = r.machine.indices
    /\ data' = r.machine.data
    /\ panicked' = r.panicked
    /\ last' = l
    /\ UNCHANGED <<pc, slice, level, placed0, placed, ops, exec, data0, spawned, timer, view>>

ActionPaste ==
    /\ pc = "layer" /\ ~panicked
    /\ EditorStep(action_paste(ed, cur), EditorCall("action_paste", ed, cur))

ActionLayerUp ==
    /\ pc = "layer" /\ ~panicked
    /\ EditorStep(action_layer_up(ed, cur), EditorCall("action_layer_up", ed, cur))

ActionLayerDown ==
    /\ pc = "layer" /\ ~panicked
    /\ EditorStep(action_layer_down(ed, cur), EditorCall("action_layer_down", ed, cur))

NextLayer == ActionPaste \/ ActionLayerUp \/ ActionLayerDown

SpecLayer == InitLayer /\ [][NextLayer]_vars

----------------------------------------------------------------------------
(***************************************************************************)
(* The edit program: an editor over a machine of two cells, loaded from    *)
(* block data, in any of the modes below with empty histories and an empty *)
(* clipboard, the mouse on no block or on the block of the first cell; then the *)
(* actions that cut, copy, delete, rotate, cancel, undo and redo, in any   *)
(* order.                                                                  *)
(***************************************************************************)
EditSize == <<2, 1, 1>>

\* The block data of the machines: a Solid block or none in the first cell
\* and a WindSource or none in the second, in the order of the cells.
EditSlices ==
    {sl \in UNION {SlicesOfLen(EditSize, n) : n \in 0 .. 2} :
        /\ \A j, k \in 1 .. Len(sl) : j < k => sl[j][1][1] < sl[k][1][1]
        /\ \A k \in 1 .. Len(sl) :
              sl[k][2] = IF sl[k][1][1] = 0 THEN Solid0 ELSE WindSource1}

\* The selections: the sequences of distinct positions of the grid.
Selections ==
    {sl \in UNION {[1 .. n -> GridPositions(EditSize)] : n \in 0 .. 2} :
        \A j, k \in 1 .. Len(sl) : j # k => sl[j] # sl[k]}

\* The modes an editor over the machine m starts in.
Modes(m) ==
    LET piece == new_from_selection(m, <<<<0, 0, 0>>>>)
        drag == DragAndDrop(<<<<0, 0, 0>>>>, piece)
        pipe == PipeTool(Some(<<1, 0, 0>>), 3)
    IN  {new_selection(selection) : selection \in Selections}
        \cup {new_pipe_tool, pipe, drag, RectSelect}
        \cup {PlacePiece(piece, outer) :
                 outer \in {pipe, PlacePiece(piece, drag)}}

InitEdit ==
    /\ \E sl \in EditSlices :
          LET m == new_from_block_data(EditSize, sl)
          IN  /\ indices = m.indices
              /\ data = m.data
              /\ editor \in {Some(Editor(mode, None, <<>>, <<>>, 0, None, mouse_block_pos)) :
                                mode \in Modes(m),
                                mouse_block_pos \in {None} \cup
                                    {Some(p) : p \in OccupiedCells(m) \cap {<<0, 0, 0>>}}}
    /\ panicked = FALSE
    /\ last = NoOp
    /\ pc = "edit"
    /\ slice = <<>>
    /\ NoLevel /\ NoPlaced /\ NoExec /\ NoView

\* One action of the edit program; an action that would make the undo
\* history longer than MaxHistory is not taken.
EditStep(r, l) ==
    /\ Len(r.editor.undo) <= MaxHistory
    /\ EditorStep(r, l)

ActionUndo ==
    /\ pc = "edit" /\ ~panicked
    /\ EditStep(action_undo(ed, cur), EditorCall("action_undo", ed, cur))

ActionRedo ==
    /\ pc = "edit" /\ ~panicked
    /\ EditStep(action_redo(ed, cur), EditorCall("action_redo", ed, cur))

ActionCut ==
    /\ pc = "edit" /\ ~panicked
    /\ EditStep(action_cut(ed, cur), EditorCall("action_cut", ed, cur))

ActionCopy ==
    /\ pc = "edit" /\ ~panicked
    /\ EditStep(action_copy(ed, cur), EditorCall("action_copy", ed, cur))

ActionDelete ==
    /\ pc = "edit" /\ ~panicked
    /\ EditStep(action_delete(ed, cur), EditorCall("action_delete", ed, cur))

ActionCancel ==
    /\ pc = "edit" /\ ~panicked
    /\ EditStep(action_cancel(ed, cur), EditorCall("action_cancel", ed, cur))

ActionRotateCw ==
    /\ pc = "edit" /\ ~panicked
    /\ EditStep(action_rotate_cw(ed, cur), EditorCall("action_rotate_cw", ed, cur))

ActionRotateCcw ==
    /\ pc = "edit" /\ ~panicked
    /\ EditStep(action_rotate_ccw(ed, cur), EditorCall("action_rotate_ccw", ed, cur))

NextEdit ==
    \/ ActionUndo \/ ActionRedo \/ ActionCut \/ ActionCopy \/ ActionDelete
    \/ ActionCancel \/ ActionRotateCw \/ ActionRotateCcw

SpecEdit == InitEdit /\ [][NextEdit]_vars

----------------------------------------------------------------------------
\* C31: action_paste lowers the current layer only when the pasted piece
\* would stick out of the top of the machine: when it fits (too_high = 0)
\* current_layer is unchanged, and when it sticks out current_layer is
\* lowered by the overshoot too_high.
C31_PasteLayer ==
    (pc = "layer" /\ last.op = "action_paste" /\ last.before.clipboard # None)
        => LET too_high == paste_too_high(last.before, cur)
           IN  ed.current_layer = last.before.current_layer - too_high

\* C32: the assertion of action_paste never fails: after the adjustment the
\* current layer is a layer of the machine.
C32_PasteAssertion ==
    (pc = "layer" /\ last.op = "action_paste")
        => ~panicked /\ is_valid_layer(cur, ed.current_layer)

\* C33: action_layer_up and action_layer_down leave the current layer a
\* layer of the machine: up on the top layer and down on layer 0 change
\* nothing, and otherwise the layer changes by exactly one.
C33_LayerUpDown ==
    /\ (pc = "layer" /\ last.op = "action_layer_up")
          => /\ is_valid_layer(cur, ed.current_layer)
             /\ ed.current_layer =
                   IF last.before.current_layer = size(cur)[3] - 1
                   THEN last.before.current_layer
                   ELSE last.before.current_layer + 1
             /\ ed = [last.before EXCEPT !.current_layer = ed.current_layer]
    /\ (pc = "layer" /\ last.op = "action_layer_down")
          => /\ is_valid_layer(cur, ed.current_layer)
             /\ ed.current_layer =
                   IF last.before.current_layer = 0
                   THEN last.before.current_layer
                   ELSE last.before.current_layer - 1
             /\ ed = [last.before EXCEPT !.current_layer = ed.current_layer]

C33_Witness ==
    /\ pc = "layer" /\ last.op = "action_layer_up"
    /\ size(cur)[3] = 3
    /\ last.before.current_layer = 2 /\ ed.current_layer = 2

\* The editor and the machine the last action was called on.
before == last.before
machine0 == last.machine

\* C34: action_undo on an empty undo history and action_redo on an empty
\* redo history change nothing; otherwise action_undo takes the most recent
\* entry off undo, runs it and pushes the edit run_edit returns onto redo,
\* and action_redo does the same from redo to undo, so that the two
\* histories together keep their length; and action_redo called right after
\* an action_undo brings back the block layout and both histories.
C34_UndoRedo ==
    /\ (pc = "edit" /\ last.op = "action_undo")
          => /\ Len(ed.undo) + Len(ed.redo) = Len(before.undo) + Len(before.redo)
             /\ IF before.undo = <<>>
                THEN ed = before /\ cur = machine0
                ELSE LET r == run_edit(machine0, before.undo[Len(before.undo)])
                         again == action_redo(ed, cur)
                     IN  /\ ed.undo = SubSeq(before.undo, 1, Len(before.undo) - 1)
                         /\ ed.redo = Append(before.redo, r.ret)
                         /\ cur = r.machine
                         /\ layout(again.machine) = layout(machine0)
                         /\ again.editor.undo = before.undo
                         /\ again.editor.redo = before.redo
    /\ (pc = "edit" /\ last.op = "action_redo")
          => /\ Len(ed.undo) + Len(ed.redo) = Len(before.undo) + Len(before.redo)
             /\ IF before.redo = <<>>
                THEN ed = before /\ cur = machine0
                ELSE LET r == run_edit(machine0, before.redo[Len(before.redo)])
                     IN  /\ ed.redo = SubSeq(before.redo, 1, Len(before.redo) - 1)
                         /\ ed.undo = Append(before.undo, r.ret)
                         /\ cur = r.machine

C34_Witness ==
    /\ pc = "edit" /\ last.op = "action_undo"
    /\ Len(before.undo) = 2 /\ before.undo[1] # before.undo[2]
    /\ Len(ed.undo) = 1 /\ Len(ed.redo) = 1
    /\ layout(cur) # layout(machine0)

\* C35: outside Select mode action_cut and action_delete change neither
\* the machine nor the editor; in Select mode both empty every selected
\* position, leave the other positions alone, push the edit that puts the
\* removed blocks back onto undo and clear redo, and action_cut also puts
\* the piece of the selected blocks, as they were before the removal, on
\* the clipboard; action_copy never changes the machine or the histories.
C35_CutCopyDelete ==
    /\ (pc = "edit" /\ last.op \in {"action_cut", "action_delete"})
          => IF before.mode.tag # "Select"
             THEN ed = before /\ cur = machine0
             ELSE LET selection == before.mode.selection
                      picked == {selection[k] : k \in 1 .. Len(selection)}
                  IN  /\ \A p \in ValidPos(cur) :
                            layout(cur)[p] = IF p \in picked THEN None
                                             ELSE layout(machine0)[p]
                      /\ ed.undo = Append(before.undo,
                                          SetBlocks([k \in 1 .. Len(selection) |->
                                              <<selection[k], layout(machine0)[selection[k]]>>]))
                      /\ ed.redo = <<>>
                      /\ ed.clipboard =
                            IF last.op = "action_cut"
                            THEN Some(new_from_selection(machine0, selection))
                            ELSE before.clipboard
    /\ (pc = "edit" /\ last.op = "action_copy")
          => /\ cur = machine0
             /\ ed.undo = before.undo /\ ed.redo = before.redo

C35_Witness ==
    /\ pc = "edit" /\ last.op = "action_cut"
    /\ before.mode.tag = "Select" /\ Len(before.mode.selection) = 2
    /\ \A p \in ValidPos(cur) : layout(machine0)[p] # None /\ layout(cur)[p] = None
    /\ Len(ed.clipboard[1].blocks) = 2

\* The number of PlacePiece modes a mode is wrapped in.
RECURSIVE outer_depth(_)
outer_depth(mode) == IF mode.tag = "PlacePiece" THEN 1 + outer_depth(mode.outer) ELSE 0

\* The mode after n calls of action_cancel.
RECURSIVE cancel_times(_, _, _)
cancel_times(e, m, n) ==
    IF n = 0 THEN e.mode ELSE cancel_times(action_cancel(e, m).editor, m, n - 1)

\* C36: action_cancel changes the mode only: DragAndDrop becomes Select with
\* the same selection, a PipeTool with a last position a fresh PipeTool,
\* PlacePiece its outer mode and every other mode a fresh Select; from
\* every mode a PlacePiece nesting deep, nesting + 2 cancels end in the
\* fresh Select, which cancel leaves as it is; the machine never changes.
C36_Cancel ==
    /\ (pc = "edit" /\ last.op = "action_cancel")
          => /\ cur = machine0
             /\ ed = [before EXCEPT !.mode = ed.mode]
             /\ ed.mode =
                   CASE before.mode.tag = "DragAndDrop" -> new_selection(before.mode.selection)
                     [] before.mode.tag = "PipeTool" /\ before.mode.last_pos # None
                           -> new_pipe_tool
                     [] before.mode.tag = "PlacePiece" -> before.mode.outer
                     [] OTHER -> new_select
    /\ pc = "edit"
          => /\ cancel_times(ed, cur, outer_depth(ed.mode) + 2) = new_select
             /\ action_cancel([ed EXCEPT !.mode = new_select], cur).editor.mode = new_select
             /\ action_cancel(ed, cur).machine = cur

C36_Witness ==
    /\ pc = "edit" /\ last.op = "action_cancel"
    /\ before.mode.tag = "PlacePiece" /\ before.mode.outer.tag = "PlacePiece"
    /\ before.mode.outer.outer.tag = "DragAndDrop"
    /\ ed.mode = before.mode.outer
    /\ cancel_times(ed, cur, 2) # new_select
    /\ cancel_times(ed, cur, 3) = new_select

\* The (position, placed block) pairs of a machine in iteration order.
block_seq(m) == [k \in 1 .. Len(iter_blocks(m)) |-> iter_blocks(m)[k][2]]

\* C37: for every machine reached by set_block_at_pos, remove_at_pos and
\* gc, from_machine followed by into_machine loads without a panic a
\* machine of the same size and level, with the same block at every
\* position and the same iteration order, that satisfies the grid-arena
\* invariant and is contiguous, its slots numbered in iteration order,
\* also when the saved machine has tombstoned slots.
C37_SaveLoad ==
    (pc = "machine" /\ ~panicked)
        => LET loaded == into_machine(from_machine(cur, level))
               m == loaded.machine
           IN  /\ ~m.panicked
               /\ size(m) = size(cur)
               /\ loaded.level = level
               /\ layout(m) = layout(cur)
               /\ block_seq(m) = block_seq(cur)
               /\ GridArenaInvariant(m)
               /\ is_contiguous(m)
               /\ \A k \in 1 .. Len(iter_blocks(m)) : iter_blocks(m)[k][1] = k - 1

C37_Witness ==
    /\ pc = "machine" /\ ~panicked
    /\ ~is_contiguous(cur)
    /\ Len(data.data) = 3 /\ data.data[1] = None /\ data.data[2] # None /\ data.data[3] # None
    /\ LET m == into_machine(from_machine(cur, level)).machine
       IN  /\ m.indices # indices
           /\ num_blocks(m) = 2
           /\ layout(m) = layout(cur)

\* The rotation counters of the editor and its machine: those of the blocks
\* of the machine and, in PipeTool mode, that of the pipe tool.
Rotations ==
    {iter_blocks(cur)[k][2][2].rotation_xy : k \in 1 .. Len(iter_blocks(cur))}
    \cup (IF ed.mode.tag = "PipeTool" THEN {ed.mode.rotation_xy} ELSE {})

\* C38: the rotation counter stays in {0, 1, 2, 3}: that of every placed
\* block under rotate_cw_xy and rotate_ccw_xy, and that of the pipe tool
\* under action_rotate_cw and action_rotate_ccw; the clockwise turn followed
\* by the counterclockwise turn, and the reverse, gives back the value.
C38_Rotation ==
    pc = "edit"
        => /\ Rotations \subseteq 0 .. 3
           /\ \A k \in 1 .. Len(iter_blocks(cur)) :
                 LET b == iter_blocks(cur)[k][2][2]
                 IN  /\ rotate_cw_xy(b).rotation_xy \in 0 .. 3
                     /\ rotate_ccw_xy(b).rotation_xy \in 0 .. 3
                     /\ rotate_ccw_xy(rotate_cw_xy(b)) = b
                     /\ rotate_cw_xy(rotate_ccw_xy(b)) = b
           /\ ed.mode.tag = "PipeTool"
                 => LET cw == action_rotate_cw(ed, cur).editor
                        ccw == action_rotate_ccw(ed, cur).editor
                    IN  /\ cw.mode.rotation_xy \in 0 .. 3
                        /\ ccw.mode.rotation_xy \in 0 .. 3
                        /\ cw.mode.rotation_xy # ed.mode.rotation_xy
                        /\ action_rotate_ccw(cw, cur).editor = ed
                        /\ action_rotate_cw(ccw, cur).editor = ed

C38_Witness ==
    /\ pc = "edit" /\ last.op = "action_rotate_cw"
    /\ before.mode.tag = "PipeTool" /\ before.mode.rotation_xy = 3
    /\ ed.mode.rotation_xy = 0
    /\ action_rotate_ccw(ed, cur).editor.mode.rotation_xy = 3

====
